---- MODULE Spec2Model ----
(***************************************************************************)
(* W5500 driver (simon-77/W5500-multiple-interfaces): the socket lifecycle *)
(* layer (socketOpen, socketClose, socketKeepOpen, socketStatus) on top of *)
(* the register access layer and SpiFrame::wait_for_value, running against *)
(* a W5500 whose socket registers change asynchronously to the host.       *)
(*                                                                         *)
(* The host is single threaded.  Every bus transfer of a handler is one    *)
(* step, so that the device can act between any two transfers, and a       *)
(* handler is the chain of its steps from Call to the step that returns.   *)
(***************************************************************************)
EXTENDS Integers, Sequences, FiniteSets, TLC

\* ------------------------------------------------------------------ bounds
\* Number of hardware sockets modelled (the W5500 has 8).
NumSockets == 2
\* socket_timeout in clock units: static_cast<unsigned long>(timeout_seconds * 1000).
TimeoutMs == 2
\* delay(1) returns after at least 1 and at most MaxDelay clock units.
MaxDelay == 2

Sockets == 0 .. (NumSockets - 1)

\* --------------------------------------------------------- program constants
\* enum SocketCommandReg
OPEN == 1
LISTEN == 2
CONNECT == 4
DISCONNECT == 8
CLOSE == 16
\* enum SocketStatusReg
SOCK_CLOSED == 0
SOCK_INIT == 19
SOCK_LISTEN == 20
SOCK_ESTABLISHED == 23
SOCK_CLOSE_WAIT == 28
SOCK_UDP == 34
\* Two of the status bytes outside the enum ("temporary states"): SYN sent
\* after CONNECT, FIN sent after DISCONNECT.
SOCK_SYNSENT == 21
SOCK_FIN_WAIT == 24
\* enum BlockSelect
CommonReg == 0
SocketReg == 1
\* enum CommonOffsetAddr / SocketOffsetAddr
phy_config == 46
mode_register == 0
command_register == 1
status_register == 3
socket_mode_register_default == 64
\* the mask waitSocketStatus passes to wait_for_value
StatusMask == 255

RawStatus == {SOCK_CLOSED, SOCK_INIT, SOCK_LISTEN, SOCK_ESTABLISHED,
              SOCK_CLOSE_WAIT, SOCK_UDP, SOCK_SYNSENT, SOCK_FIN_WAIT}
\* PHYCFGR values: bit 0 link, bit 1 speed, bit 2 duplex, bits 3..7 configuration
PhyValues == {186, 189}
SocketMode == {"TCP_Server", "TCP_Client", "UDP"}
NoMode == "NoMode"
NoByte == -1

\* ------------------------------------------------------------ pure helpers
RECURSIVE BitAnd(_, _)
BitAnd(a, b) ==
    IF a = 0 \/ b = 0 THEN 0
    ELSE (a % 2) * (b % 2) + 2 * BitAnd(a \div 2, b \div 2)

RECURSIVE BitOr(_, _)
BitOr(a, b) ==
    IF a = 0 THEN b
    ELSE IF b = 0 THEN a
    ELSE (IF a % 2 = 1 \/ b % 2 = 1 THEN 1 ELSE 0) + 2 * BitOr(a \div 2, b \div 2)

\* ------------------------------------------------- decisions of the handlers
\* Mutant of LinkUp: the link test looks at the speed bit.
LinkUp_SpeedBit(phy) == BitAnd(phy, 2) # 0

\* socketOpen: (rdCommonReg(phy_config) & 0x01) == 0 means the link is down.
LinkUp(phy) == BitAnd(phy, 1) # 0

\* socketOpen: mode_value = socket_mode_register_default | mode bit.
mode_value(mode) ==
    IF mode = "UDP" THEN BitOr(socket_mode_register_default, 2)
    ELSE BitOr(socket_mode_register_default, 1)

\* Mutant of second_command: the commands of the two TCP modes swapped.
second_command_Swapped(mode) == IF mode = "TCP_Server" THEN CONNECT ELSE LISTEN

\* socketOpen: the command issued once the socket is in SOCK_INIT.
second_command(mode) == IF mode = "TCP_Server" THEN LISTEN ELSE CONNECT

\* Mutant of expected_state: the two TCP modes swapped.
expected_state_Swapped(mode) ==
    IF mode = "TCP_Server" THEN SOCK_ESTABLISHED ELSE SOCK_LISTEN

\* socketOpen: the status the last poll of a TCP mode waits for.
expected_state(mode) == IF mode = "TCP_Server" THEN SOCK_LISTEN ELSE SOCK_ESTABLISHED

\* socketOpen: the status the poll after OPEN waits for.
first_state(mode) == IF mode = "UDP" THEN SOCK_UDP ELSE SOCK_INIT

\* socketOpen: what follows a successful poll after OPEN.
AfterFirstPoll(mode) == IF mode = "UDP" THEN "return" ELSE "second"

\* Mutant of socketCloseBranch: a listening socket is disconnected too.
socketCloseBranch_DisconnectListen(raw) ==
    IF raw = SOCK_CLOSED THEN "return"
    ELSE IF raw \in {SOCK_ESTABLISHED, SOCK_CLOSE_WAIT, SOCK_LISTEN} THEN "disconnect"
    ELSE "close"

\* socketClose: the switch on socketStatusReg.
socketCloseBranch(raw) ==
    IF raw = SOCK_CLOSED THEN "return"
    ELSE IF raw \in {SOCK_ESTABLISHED, SOCK_CLOSE_WAIT} THEN "disconnect"
    ELSE "close"

\* socketClose: what follows the poll for SOCK_CLOSED after DISCONNECT.
AfterDisconnectPoll(ok) == IF ok THEN "return" ELSE "close"

\* Mutant of socketKeepOpenBranch: CloseWait is left alone like Established.
socketKeepOpenBranch_NoDisconnect(raw) ==
    IF raw \in {SOCK_CLOSED, SOCK_INIT} THEN "open" ELSE "none"

\* Mutant of socketKeepOpenBranch: a half-closed socket is re-opened.
socketKeepOpenBranch_ReopenCloseWait(raw) ==
    IF raw \in {SOCK_CLOSED, SOCK_INIT, SOCK_CLOSE_WAIT} THEN "open" ELSE "none"

\* Mutant of socketKeepOpenBranch: a listening socket is re-opened.
socketKeepOpenBranch_ReopenListen(raw) ==
    IF raw \in {SOCK_CLOSED, SOCK_INIT, SOCK_LISTEN} THEN "open"
    ELSE IF raw = SOCK_CLOSE_WAIT THEN "disconnect"
    ELSE "none"

\* socketKeepOpen: the switch on socketStatusReg.
socketKeepOpenBranch(raw) ==
    IF raw \in {SOCK_CLOSED, SOCK_INIT} THEN "open"
    ELSE IF raw = SOCK_CLOSE_WAIT THEN "disconnect"
    ELSE "none"

\* Mutant of socketStatusValue: CloseWait is reported as still connected.
socketStatusValue_CloseWaitConnected(raw) ==
    CASE raw = SOCK_CLOSED -> "Closed"
      [] raw = SOCK_INIT -> "Closed"
      [] raw = SOCK_LISTEN -> "TCP_Listen"
      [] raw = SOCK_ESTABLISHED -> "TCP_Connected"
      [] raw = SOCK_CLOSE_WAIT -> "TCP_Connected"
      [] raw = SOCK_UDP -> "UDP_Open"
      [] OTHER -> "Temporary"

\* socketStatus: the value returned for a raw status.
socketStatusValue(raw) ==
    CASE raw = SOCK_CLOSED -> "Closed"
      [] raw = SOCK_INIT -> "Closed"
      [] raw = SOCK_LISTEN -> "TCP_Listen"
      [] raw = SOCK_ESTABLISHED -> "TCP_Connected"
      [] raw = SOCK_CLOSE_WAIT -> "Closed"
      [] raw = SOCK_UDP -> "UDP_Open"
      [] OTHER -> "Temporary"

\* Mutant of socketStatusCommand: a listening socket is closed too.
socketStatusCommand_ListenClose(raw) ==
    CASE raw = SOCK_INIT -> CLOSE
      [] raw = SOCK_LISTEN -> CLOSE
      [] raw = SOCK_CLOSE_WAIT -> DISCONNECT
      [] OTHER -> 0

\* socketStatus: the command issued for a raw status, 0 for none.
socketStatusCommand(raw) ==
    CASE raw = SOCK_INIT -> CLOSE
      [] raw = SOCK_CLOSE_WAIT -> DISCONNECT
      [] OTHER -> 0

\* Mutant of InWindow: the elapsed time is never found to reach the timeout.
InWindow_NoTimeout(el) == el < TimeoutMs + 1

\* wait_for_value: the loop condition (millis() - start_time) < timeout.
InWindow(el) == el < TimeoutMs

\* wait_for_value: (data & mask) == value.
Matches(data, mask, value) == BitAnd(data, mask) = value

\* ------------------------------------------------------------------- state
VARIABLES
    sr,       \* device: Sn_SR, the status register of each socket
    cr,       \* device: Sn_CR, the command written and not yet executed (0: none)
    mr,       \* device: Sn_MR, the mode register of each socket
    phycfgr,  \* device: PHY configuration and status register
    pc,       \* host: position in the running handler; "returned" at its return,
              \*       "idle" between calls
    call,     \* host: the running (or last) call: handler, socket_n, mode
    prev,     \* host: the call that returned before it, when it was a socketClose
              \*       or a socketOpen that returned true; kept during a call of
              \*       socketStatus on the same socket only
    result,   \* host: value returned by the handler ("pending" while it runs);
              \*       for socketKeepOpen the value of the socketOpen it called
    log,      \* the bus transfers and polls of the running (or last) call
    st,       \* host: the value switched on (result of socketStatusReg)
    cret,     \* host: where the running socketClose returns to
    wfor,     \* host: which poll is running: "close", "first", "second"
    want,     \* host: the value wait_for_value waits for
    elapsed   \* host: millis() - start_time of the running wait_for_value

\* State of the layers below and above the socket lifecycle: the bus, the
\* 16-bit registers and the RX ring of the device, and the locals of the data
\* transfer and register access functions. The socket lifecycle handlers do
\* not touch it.
VARIABLES
    cs,       \* bus: level of the chip-select pin ("HIGH": deselected)
    wire,     \* bus: the events on the bus since init, oldest first
    ctx,      \* bus: position and arguments of the transfer of each caller
    reg16,    \* device: Sn_TX_FSR, Sn_TX_WR, Sn_RX_RSR, Sn_RX_RD of each socket
    rxbuf,    \* device: the bytes queued in the RX ring of each socket, from
              \*         the read pointer the device holds
    loc       \* host: arguments and locals of the running function

extVars == <<cs, wire, ctx, reg16, rxbuf, loc>>
allVars == <<sr, cr, mr, phycfgr, pc, call, prev, result, log, st, cret, wfor, want,
             elapsed, cs, wire, ctx, reg16, rxbuf, loc>>

\* The bus deselected after SpiFrame::init, and nothing else of these layers
\* in use.
ExtIdle ==
    /\ cs = "HIGH"
    /\ wire = <<>>
    /\ ctx = <<>>
    /\ reg16 = <<>>
    /\ rxbuf = <<>>
    /\ loc = <<>>

devVars == <<sr, cr, mr, phycfgr>>
hostVars == <<pc, call, prev, result, log, st, cret, wfor, want, elapsed>>
vars == <<sr, cr, mr, phycfgr, pc, call, prev, result, log, st, cret, wfor, want, elapsed>>

NoCall == [op |-> "other", n |-> 0, mode |-> NoMode, result |-> "none"]

\* The device after reset and the host before its first call.
Init ==
    /\ sr = [n \in Sockets |-> SOCK_CLOSED]
    /\ cr = [n \in Sockets |-> 0]
    /\ mr = [n \in Sockets |-> 0]
    /\ phycfgr \in PhyValues
    /\ pc = "idle"
    /\ call = [op |-> "none", n |-> 0, mode |-> NoMode]
    /\ prev = NoCall
    /\ result = "none"
    /\ log = <<>>
    /\ st = NoByte
    /\ cret = "none"
    /\ wfor = "none"
    /\ want = NoByte
    /\ elapsed = 0
    /\ ExtIdle

\* ------------------------------------------------------------ bus transfers
Rd(b, n, a, v) == [k |-> "rd", b |-> b, n |-> n, a |-> a, v |-> v]
Wr(b, n, a, v) == [k |-> "wr", b |-> b, n |-> n, a |-> a, v |-> v]
Poll(n, v, ok, seen, late) ==
    [k |-> "poll", b |-> SocketReg, n |-> n, a |-> status_register, v |-> v,
     ok |-> ok, seen |-> seen, late |-> late]

\* wrSocketReg(socket_n, offset, data): one write frame; the device latches it.
wrSocketReg(n, a, v) ==
    /\ log' = Append(log, Wr(SocketReg, n, a, v))
    /\ cr' = IF a = command_register THEN [cr EXCEPT ![n] = v] ELSE cr
    /\ mr' = IF a = mode_register THEN [mr EXCEPT ![n] = v] ELSE mr
    /\ UNCHANGED <<sr, phycfgr>>

\* Mutant of socketCommand: the command goes to socket 0.
socketCommand_SocketZero(n, c) == wrSocketReg(0, command_register, c)

\* socketCommand(socket_n, command)
socketCommand(n, c) == wrSocketReg(n, command_register, c)

\* socketStatusReg(socket_n): one read frame of the status register.
socketStatusReg(n) == sr[n]

\* ------------------------------------------------------------ control flow
Goto(p) == [pc |-> p, result |-> result, cret |-> cret]
Done(v) == [pc |-> "returned", result |-> v, cret |-> "none"]
CloseStart(r) == [pc |-> "c_read", result |-> result, cret |-> r]

\* return of socketClose to its caller
AfterClose ==
    CASE cret = "o_mode" -> Goto("o_mode")
      [] cret = "o_fail" -> Done("false")
      [] OTHER -> Done("void")

\* Mutant of AfterWait: the result of the second poll of socketOpen is negated.
AfterWait_SecondNegated(ok) ==
    CASE wfor = "close" ->
            IF AfterDisconnectPoll(ok) = "return" THEN AfterClose ELSE Goto("c_close")
      [] wfor = "first" ->
            IF ok THEN (IF AfterFirstPoll(call.mode) = "return" THEN Done("true")
                        ELSE Goto("o_second"))
            ELSE CloseStart("o_fail")
      [] OTHER ->
            IF ~ok THEN Done("true") ELSE CloseStart("o_fail")

\* return of waitSocketStatus to its caller
AfterWait(ok) ==
    CASE wfor = "close" ->
            IF AfterDisconnectPoll(ok) = "return" THEN AfterClose ELSE Goto("c_close")
      [] wfor = "first" ->
            IF ok THEN (IF AfterFirstPoll(call.mode) = "return" THEN Done("true")
                        ELSE Goto("o_second"))
            ELSE CloseStart("o_fail")
      [] OTHER ->
            IF ok THEN Done("true") ELSE CloseStart("o_fail")

Step(nx) ==
    /\ pc' = nx.pc
    /\ result' = nx.result
    /\ cret' = nx.cret

\* entry of waitSocketStatus(socket_n, status, socket_timeout)
StartWait(which, status) ==
    /\ pc' = "w_loop"
    /\ wfor' = which
    /\ want' = status
    /\ elapsed' = 0

\* ------------------------------------------------------------ calls (host)
Call(op, n, m, entry) ==
    /\ pc = "idle"
    /\ call' = [op |-> op, n |-> n, mode |-> m]
    /\ result' = "pending"
    /\ pc' = entry
    /\ prev' = IF op = "socketStatus" /\ prev.n = n THEN prev ELSE NoCall
    /\ UNCHANGED <<log, st, cret, wfor, want, elapsed, devVars>>
    /\ UNCHANGED extVars

CallOpen == \E n \in Sockets, m \in SocketMode : Call("socketOpen", n, m, "o_phy")
CallClose == \E n \in Sockets : Call("socketClose", n, NoMode, "c_read")
CallKeepOpen == \E n \in Sockets, m \in SocketMode : Call("socketKeepOpen", n, m, "k_read")
CallStatus == \E n \in Sockets : Call("socketStatus", n, NoMode, "s_read")

\* The caller takes the returned value and goes on: the record of the call is
\* dropped, except for a socketClose or a successful socketOpen, of which the
\* arguments and the result are kept until the next call returns.
Resume ==
    /\ pc = "returned"
    /\ pc' = "idle"
    /\ prev' = IF call.op = "socketClose" \/ (call.op = "socketOpen" /\ result = "true")
               THEN [op |-> call.op, n |-> call.n, mode |-> call.mode, result |-> result]
               ELSE NoCall
    /\ call' = [op |-> "none", n |-> 0, mode |-> NoMode]
    /\ result' = "none"
    /\ log' = <<>>
    /\ st' = NoByte
    /\ cret' = "none"
    /\ wfor' = "none"
    /\ want' = NoByte
    /\ elapsed' = 0
    /\ UNCHANGED devVars
    /\ UNCHANGED extVars

\* --------------------------------------------------------------- socketOpen
\* the PHY status read and the link test; then socketClose(socket_n)
OpenPhy ==
    /\ pc = "o_phy"
    /\ log' = Append(log, Rd(CommonReg, 0, phy_config, phycfgr))
    /\ Step(IF LinkUp(phycfgr) THEN CloseStart("o_mode") ELSE Done("false"))
    /\ UNCHANGED <<call, prev, st, wfor, want, elapsed, devVars>>
    /\ UNCHANGED extVars

\* wrSocketReg(socket_n, mode_register, mode_value)
OpenMode ==
    /\ pc = "o_mode"
    /\ wrSocketReg(call.n, mode_register, mode_value(call.mode))
    /\ Step(Goto("o_open"))
    /\ UNCHANGED <<call, prev, st, wfor, want, elapsed>>
    /\ UNCHANGED extVars

\* socketCommand(socket_n, OPEN), then the first waitSocketStatus
OpenCommand ==
    /\ pc = "o_open"
    /\ socketCommand(call.n, OPEN)
    /\ StartWait("first", first_state(call.mode))
    /\ UNCHANGED <<call, prev, result, st, cret>>
    /\ UNCHANGED extVars

\* socketCommand(socket_n, second_command), then the second waitSocketStatus
OpenSecond ==
    /\ pc = "o_second"
    /\ socketCommand(call.n, second_command(call.mode))
    /\ StartWait("second", expected_state(call.mode))
    /\ UNCHANGED <<call, prev, result, st, cret>>
    /\ UNCHANGED extVars

\* -------------------------------------------------------------- socketClose
\* switch (socketStatusReg(socket_n))
CloseRead ==
    /\ pc = "c_read"
    /\ log' = Append(log, Rd(SocketReg, call.n, status_register, socketStatusReg(call.n)))
    /\ st' = socketStatusReg(call.n)
    /\ LET br == socketCloseBranch(socketStatusReg(call.n)) IN
         Step(CASE br = "return" -> AfterClose
                [] br = "disconnect" -> Goto("c_disc")
                [] OTHER -> Goto("c_close"))
    /\ UNCHANGED <<call, prev, wfor, want, elapsed, devVars>>
    /\ UNCHANGED extVars

\* socketCommand(socket_n, DISCONNECT), then waitSocketStatus(SOCK_CLOSED)
CloseDisconnect ==
    /\ pc = "c_disc"
    /\ socketCommand(call.n, DISCONNECT)
    /\ StartWait("close", SOCK_CLOSED)
    /\ UNCHANGED <<call, prev, result, st, cret>>
    /\ UNCHANGED extVars

\* socketCommand(socket_n, CLOSE) and return
CloseCommand ==
    /\ pc = "c_close"
    /\ socketCommand(call.n, CLOSE)
    /\ Step(AfterClose)
    /\ UNCHANGED <<call, prev, st, wfor, want, elapsed>>
    /\ UNCHANGED extVars

\* ----------------------------------------------------------- wait_for_value
\* One turn of the loop: the test of the elapsed time, the one-byte read and
\* the comparison. The poll is logged when wait_for_value returns.
WaitRead ==
    /\ pc = "w_loop"
    /\ LET data == socketStatusReg(call.n)
           hit == InWindow(elapsed) /\ Matches(data, StatusMask, want)
       IN  IF InWindow(elapsed) /\ ~hit
           THEN /\ pc' = "w_delay"
                /\ UNCHANGED <<result, cret, log, elapsed>>
           ELSE /\ Step(AfterWait(hit))
                /\ log' = Append(log, Poll(call.n, want, hit,
                                           IF hit THEN data ELSE NoByte,
                                           elapsed >= TimeoutMs))
                /\ elapsed' = 0
    /\ UNCHANGED <<call, prev, st, wfor, want, devVars>>
    /\ UNCHANGED extVars

\* delay(1): the clock advances by at least one unit before the next turn.
\* Elapsed times from the timeout on are not told apart.
Delay ==
    /\ pc = "w_delay"
    /\ \E d \in 1 .. MaxDelay :
         elapsed' = IF elapsed + d < TimeoutMs THEN elapsed + d ELSE TimeoutMs
    /\ pc' = "w_loop"
    /\ UNCHANGED <<call, prev, result, log, st, cret, wfor, want, devVars>>
    /\ UNCHANGED extVars

\* ----------------------------------------------------------- socketKeepOpen
\* switch (socketStatusReg(socket_n))
KeepOpenRead ==
    /\ pc = "k_read"
    /\ log' = Append(log, Rd(SocketReg, call.n, status_register, socketStatusReg(call.n)))
    /\ st' = socketStatusReg(call.n)
    /\ LET br == socketKeepOpenBranch(socketStatusReg(call.n)) IN
         Step(CASE br = "open" -> Goto("o_phy")
                [] br = "disconnect" -> Goto("k_disc")
                [] OTHER -> Done("void"))
    /\ UNCHANGED <<call, prev, wfor, want, elapsed, devVars>>
    /\ UNCHANGED extVars

\* socketCommand(socket_n, DISCONNECT), not waited for
KeepOpenDisconnect ==
    /\ pc = "k_disc"
    /\ socketCommand(call.n, DISCONNECT)
    /\ Step(Done("void"))
    /\ UNCHANGED <<call, prev, st, wfor, want, elapsed>>
    /\ UNCHANGED extVars

\* ------------------------------------------------------------- socketStatus
\* switch (socketStatusReg(socket_n))
StatusRead ==
    /\ pc = "s_read"
    /\ log' = Append(log, Rd(SocketReg, call.n, status_register, socketStatusReg(call.n)))
    /\ st' = socketStatusReg(call.n)
    /\ Step(IF socketStatusCommand(socketStatusReg(call.n)) = 0
            THEN Done(socketStatusValue(socketStatusReg(call.n)))
            ELSE Goto("s_cmd"))
    /\ UNCHANGED <<call, prev, wfor, want, elapsed, devVars>>
    /\ UNCHANGED extVars

\* socketCommand(socket_n, CLOSE or DISCONNECT) and return
StatusCommand ==
    /\ pc = "s_cmd"
    /\ socketCommand(call.n, socketStatusCommand(st))
    /\ Step(Done(socketStatusValue(st)))
    /\ UNCHANGED <<call, prev, st, wfor, want, elapsed>>
    /\ UNCHANGED extVars

\* ------------------------------------------------------------------- device
\* The status a socket takes when the device executes a pending command.
DevCommand(c, s, m) ==
    CASE c = OPEN ->
            IF s # SOCK_CLOSED THEN s
            ELSE IF m % 16 = 1 THEN SOCK_INIT
            ELSE IF m % 16 = 2 THEN SOCK_UDP
            ELSE s
      [] c = LISTEN -> IF s = SOCK_INIT /\ m % 16 = 1 THEN SOCK_LISTEN ELSE s
      [] c = CONNECT -> IF s = SOCK_INIT /\ m % 16 = 1 THEN SOCK_SYNSENT ELSE s
      [] c = DISCONNECT ->
            IF s \in {SOCK_ESTABLISHED, SOCK_CLOSE_WAIT} THEN SOCK_FIN_WAIT ELSE s
      [] c = CLOSE -> SOCK_CLOSED
      [] OTHER -> s

\* The statuses a socket can move to because of the network.
DevNetwork(s) ==
    CASE s = SOCK_LISTEN -> {SOCK_ESTABLISHED}
      [] s = SOCK_SYNSENT -> {SOCK_ESTABLISHED, SOCK_CLOSED}
      [] s = SOCK_ESTABLISHED -> {SOCK_CLOSE_WAIT, SOCK_CLOSED}
      [] s = SOCK_FIN_WAIT -> {SOCK_CLOSED}
      [] OTHER -> {}

\* The device executes the command in Sn_CR and clears the register.
DevExec ==
    \E n \in Sockets :
        /\ pc # "returned"
        /\ cr[n] # 0
        /\ sr' = [sr EXCEPT ![n] = DevCommand(cr[n], sr[n], mr[n])]
        /\ cr' = [cr EXCEPT ![n] = 0]
        /\ UNCHANGED <<mr, phycfgr, hostVars>>
        /\ UNCHANGED extVars

\* A peer connects, answers, closes or times out.
DevNet ==
    \E n \in Sockets :
        \E s \in DevNetwork(sr[n]) :
            /\ pc # "returned"
            /\ sr' = [sr EXCEPT ![n] = s]
            /\ UNCHANGED <<cr, mr, phycfgr, hostVars>>
            /\ UNCHANGED extVars

\* The link comes up or goes down. The register is read only by the first
\* transfer of socketOpen, so a change during a call has the effect of a change
\* before or after the call, and is taken there.
DevPhy ==
    /\ pc = "idle"
    /\ \E v \in PhyValues \ {phycfgr} : phycfgr' = v
    /\ UNCHANGED <<sr, cr, mr, hostVars>>
    /\ UNCHANGED extVars

\* ------------------------------------------------------------ specification
Next ==
    \/ CallOpen
    \/ CallClose
    \/ CallKeepOpen
    \/ CallStatus
    \/ Resume
    \/ OpenPhy
    \/ OpenMode
    \/ OpenCommand
    \/ OpenSecond
    \/ CloseRead
    \/ CloseDisconnect
    \/ CloseCommand
    \/ WaitRead
    \/ Delay
    \/ KeepOpenRead
    \/ KeepOpenDisconnect
    \/ StatusRead
    \/ StatusCommand
    \/ DevExec
    \/ DevNet
    \/ DevPhy

Spec == Init /\ [][Next]_allVars

\* A handler is running; it is inside wait_for_value.
Running == pc \notin {"idle", "returned"}
Waiting == pc \in {"w_loop", "w_delay"}

\* The steps of a running socketOpen or socketClose.
OpenCloseStep ==
    \/ OpenPhy
    \/ OpenMode
    \/ OpenCommand
    \/ OpenSecond
    \/ CloseRead
    \/ CloseDisconnect
    \/ CloseCommand
    \/ WaitRead
    \/ Delay

\* A device whose status register takes any value at any time. Only the value
\* the register of the socket of the running call has when it is read matters,
\* so it is changed there, before a read.
DevAny ==
    \E s \in RawStatus \ {sr[call.n]} :
        /\ pc \in {"c_read", "w_loop"}
        /\ sr' = [sr EXCEPT ![call.n] = s]
        /\ UNCHANGED <<cr, mr, phycfgr, hostVars>>
        /\ UNCHANGED extVars

\* Calls of socketOpen and socketClose against that device.
NextAny ==
    \/ CallOpen
    \/ CallClose
    \/ Resume
    \/ OpenCloseStep
    \/ DevAny
    \/ DevPhy

\* The host runs and its clock advances (delay(1) returns); nothing is assumed
\* of the device.
FairSpecAny == Init /\ [][NextAny]_allVars /\ WF_allVars(OpenCloseStep)

\* ------------------------------------------------- reading the log of a call
Returned == pc = "returned"

\* socketOpen ran in the call: called directly, or by socketKeepOpen.
OpenStarted ==
    \/ call.op = "socketOpen" /\ Len(log) >= 1
    \/ call.op = "socketKeepOpen" /\ Len(log) >= 2 /\ log[2].k = "rd"

\* The transfers and polls of that socketOpen.
OpenLog == IF call.op = "socketKeepOpen" THEN Tail(log) ELSE log

IsPoll(e) == e.k = "poll"
IsWrite(e) == e.k = "wr"
IsRead(e) == e.k = "rd"
Polls(l) == SelectSeq(l, IsPoll)
Writes(l) == SelectSeq(l, IsWrite)
Reads(l) == SelectSeq(l, IsRead)

\* The terminal status of a mode.
Terminal(mode) ==
    CASE mode = "UDP" -> SOCK_UDP
      [] mode = "TCP_Server" -> SOCK_LISTEN
      [] OTHER -> SOCK_ESTABLISHED

\* A poll that returned true on reading `status` before the timeout elapsed.
Observed(e, status) == e.k = "poll" /\ e.ok /\ e.seen = status /\ ~e.late

\* ------------------------------------------------------------------ claims
\* C1: socketOpen returns true only if its final status poll, the last thing it
\* did, observed the terminal status of the requested mode (UDP-active for UDP,
\* Listening for TCP_Server, Established for TCP_Client) within the timeout
\* window of that poll; in the TCP modes the poll before it observed Init.
C1_OpenTrueOnlyOnTerminalStatus ==
    (Returned /\ OpenStarted /\ result = "true") =>
        LET l == OpenLog
            k == Len(l)
        IN  /\ k >= 1
            /\ Observed(l[k], Terminal(call.mode))
            /\ call.mode # "UDP" =>
                 /\ k >= 3
                 /\ IsWrite(l[k - 1])
                 /\ Observed(l[k - 2], SOCK_INIT)

C1_Witness ==
    /\ Returned
    /\ call.op = "socketOpen"
    /\ call.mode = "TCP_Client"
    /\ result = "true"

\* C3: when bit 0 of the PHY status read by socketOpen is 0, socketOpen returns
\* false at once: the PHY read is its only bus access (no write, no command, no
\* poll), so it changes no register of the socket.
C3_LinkDownOnlyPhyRead ==
    (OpenStarted /\ OpenLog[1].v % 2 = 0) =>
        /\ Returned
        /\ result = "false"
        /\ OpenLog = <<Rd(CommonReg, 0, phy_config, phycfgr)>>

C3_Witness ==
    /\ Returned
    /\ call.op = "socketOpen"
    /\ OpenLog[1].v % 2 = 0
    /\ sr[call.n] # SOCK_CLOSED

\* C2 (as claimed): once socketClose has returned, the next socketStatus call on
\* the same socket reports Closed. socketClose does not wait for the CLOSE
\* command to be executed, so the claim is violated.
C2_StatusAfterCloseIsClosed ==
    (Returned /\ call.op = "socketStatus" /\ prev.op = "socketClose" /\ prev.n = call.n)
        => result = "Closed"

\* One of the polls of socketOpen itself (not of the socketClose it calls)
\* returned false.
OpenPollTimedOut ==
    \E i \in 1 .. Len(OpenLog) :
        /\ IsPoll(OpenLog[i])
        /\ ~OpenLog[i].ok
        /\ i >= 2
        /\ IsWrite(OpenLog[i - 1])
        /\ OpenLog[i - 1].v \in {OPEN, LISTEN, CONNECT}

\* C4 (as claimed): when a status poll of socketOpen times out, socketOpen
\* returns false and the raw status of the socket is Closed at that return.
\* The close sequence ends with a CLOSE command that is not waited for, so the
\* claim is violated.
C4_TimeoutLeavesSocketClosed ==
    (Returned /\ OpenStarted /\ OpenPollTimedOut) =>
        /\ result = "false"
        /\ sr[call.n] = SOCK_CLOSED

\* C5 (as claimed): socketKeepOpen never runs a status poll, whatever raw status
\* it finds: it reads the status once and issues at most one command. Closed
\* and Init lead to socketOpen, which polls, so the claim is violated.
C5_KeepOpenNeverPolls ==
    (Returned /\ call.op = "socketKeepOpen") =>
        /\ Len(Polls(log)) = 0
        /\ Len(Reads(log)) = 1
        /\ Len(Writes(log)) <= 1

\* C5 (amended): socketKeepOpen runs no status poll when the raw status it reads
\* is neither Closed nor Init: it reads the status once and issues at most one
\* command, which it does not wait for. (On Closed or Init it calls socketOpen.)
C5_KeepOpenPollsOnlyToReopen ==
    (call.op = "socketKeepOpen" /\ Len(log) >= 1
       /\ log[1].v \notin {SOCK_CLOSED, SOCK_INIT}) =>
        /\ ~Waiting
        /\ Len(Polls(log)) = 0
        /\ Len(Reads(log)) = 1
        /\ Len(Writes(log)) <= 1

C5_Witness ==
    /\ Returned
    /\ call.op = "socketKeepOpen"
    /\ log[1].v = SOCK_ESTABLISHED
    /\ Len(log) = 1

\* C6: socketKeepOpen on a socket whose raw status is CloseWait writes the
\* DISCONNECT command once, writes nothing else, and returns without a poll.
C6_KeepOpenCloseWait ==
    (call.op = "socketKeepOpen" /\ Len(log) >= 1 /\ log[1].v = SOCK_CLOSE_WAIT) =>
        /\ Len(log) <= 2
        /\ Len(log) = 2 =>
             log[2] = Wr(SocketReg, call.n, command_register, DISCONNECT)
        /\ Returned <=> Len(log) = 2

C6_Witness ==
    /\ Returned
    /\ call.op = "socketKeepOpen"
    /\ log[1].v = SOCK_CLOSE_WAIT
    /\ cr[call.n] = DISCONNECT

\* C7: socketKeepOpen on a socket whose raw status is Listening, Established,
\* UDP-active or a transitional code does nothing after the status read,
\* whatever its mode argument: no write, no poll, no re-open.
C7_KeepOpenLeavesOpenSocket ==
    (call.op = "socketKeepOpen" /\ Len(log) >= 1
       /\ log[1].v \notin {SOCK_CLOSED, SOCK_INIT, SOCK_CLOSE_WAIT}) =>
        /\ Returned
        /\ result = "void"
        /\ log = <<Rd(SocketReg, call.n, status_register, sr[call.n])>>

C7_Witness ==
    /\ Returned
    /\ call.op = "socketKeepOpen"
    /\ call.mode = "UDP"
    /\ log[1].v = SOCK_LISTEN
    /\ mr[call.n] = mode_value("TCP_Server")

\* The result and the command of socketStatus for each raw status.
StatusTable(raw) ==
    CASE raw = SOCK_CLOSED -> [ret |-> "Closed", cmds |-> <<>>]
      [] raw = SOCK_INIT -> [ret |-> "Closed", cmds |-> <<CLOSE>>]
      [] raw = SOCK_LISTEN -> [ret |-> "TCP_Listen", cmds |-> <<>>]
      [] raw = SOCK_ESTABLISHED -> [ret |-> "TCP_Connected", cmds |-> <<>>]
      [] raw = SOCK_CLOSE_WAIT -> [ret |-> "Closed", cmds |-> <<DISCONNECT>>]
      [] raw = SOCK_UDP -> [ret |-> "UDP_Open", cmds |-> <<>>]
      [] OTHER -> [ret |-> "Temporary", cmds |-> <<>>]

\* C8: socketStatus reads the raw status once; its result and its command are
\* those of the table above for that status, the command written once and not
\* waited for.
C8_StatusMapping ==
    (Returned /\ call.op = "socketStatus") =>
        LET raw == log[1].v
            t == StatusTable(raw)
        IN  /\ log[1] = Rd(SocketReg, call.n, status_register, raw)
            /\ result = t.ret
            /\ Len(log) = 1 + Len(t.cmds)
            /\ \A i \in 1 .. Len(t.cmds) :
                 log[1 + i] = Wr(SocketReg, call.n, command_register, t.cmds[i])

C8_Witness ==
    /\ Returned
    /\ call.op = "socketStatus"
    /\ log[1].v = SOCK_CLOSE_WAIT
    /\ result = "Closed"
    /\ Len(log) = 2

\* C9: a call of socketClose or socketOpen returns whatever the status register
\* reads, as long as the host runs and its clock advances; socketClose starts at
\* most one timeout window and socketOpen at most four.
WindowsStarted == Len(Polls(log)) + (IF Waiting THEN 1 ELSE 0)
WindowBudget ==
    /\ call.op = "socketClose" => WindowsStarted <= 1
    /\ call.op = "socketOpen" => WindowsStarted <= 4
    /\ Waiting => elapsed <= TimeoutMs

C9_OpenAndCloseReturn ==
    /\ []WindowBudget
    /\ (Running /\ call.op \in {"socketOpen", "socketClose"}) ~> Returned

C9_Witness ==
    /\ Returned
    /\ call.op = "socketOpen"
    /\ result = "false"
    /\ Len(Polls(log)) = 4

\* C10: a socketOpen as TCP_Client in which a poll observed Init within the
\* window after OPEN and the next poll observed Established within its own
\* window after CONNECT returns true; and a socketStatus call after it that
\* reads the status while it is still Established returns TCP_Connected.
ClientHandshakeObserved ==
    \E i \in 1 .. Len(OpenLog) :
        /\ i >= 4
        /\ OpenLog[i - 3] = Wr(SocketReg, call.n, command_register, OPEN)
        /\ Observed(OpenLog[i - 2], SOCK_INIT)
        /\ OpenLog[i - 1] = Wr(SocketReg, call.n, command_register, CONNECT)
        /\ Observed(OpenLog[i], SOCK_ESTABLISHED)

C10_ClientOpenThenConnected ==
    /\ (Returned /\ OpenStarted /\ call.mode = "TCP_Client" /\ ClientHandshakeObserved)
          => result = "true"
    /\ (Returned /\ call.op = "socketStatus" /\ prev.op = "socketOpen"
          /\ prev.mode = "TCP_Client" /\ prev.result = "true" /\ prev.n = call.n
          /\ log[1].v = SOCK_ESTABLISHED)
          => result = "TCP_Connected"

C10_Witness ==
    /\ Returned
    /\ call.op = "socketStatus"
    /\ prev.op = "socketOpen"
    /\ prev.mode = "TCP_Client"
    /\ prev.result = "true"
    /\ prev.n = call.n
    /\ result = "TCP_Connected"

\* =========================================================================
\* Data transfer layer: socketConnected, sendAvailable, receiveAvailable,
\* send and receive, with the register access functions they use.
\* =========================================================================

\* Bounds of the data transfer model: size of the TX and of the RX memory of
\* a socket in bytes, longest payload that arrives, arrivals the RX memory holds
\* unread, calls made in one run.
TxBufSize == 20
RxBufSize == 20
MaxPayload == 2
MaxQueued == 2
MaxCalls == 1

\* SocketCommandReg, BlockSelect and SocketOffsetAddr values used here
SEND == 32
RECV == 64
TxBuffer == 2
RxBuffer == 3
tx_free_size == 32
tx_read_pointer == 34
tx_write_pointer == 36
rx_received_size == 38
rx_read_pointer == 40
rx_write_pointer == 42

\* uint16_t: number of values
Word16 == 65536
\* rdSocketReg16_atomic: const uint8_t max_tries
max_tries == 20
\* receive: uint8_t udp_header[8]
udp_header_size == 8

Reg16 == {tx_free_size, tx_read_pointer, tx_write_pointer,
          rx_received_size, rx_read_pointer, rx_write_pointer}

\* Values of the buffer pointers when the run starts: the start of the address
\* space, and 0xFFF8, sixteen bytes before the pointer wraps.
StartPointers == {0, 65528}

\* Bytes of an earlier send the device has not transmitted yet when the run
\* starts: none, or as many as the TX memory holds.
StartPending == {0, TxBufSize}

\* Lengths the caller asks for.
SendLens == {0, 16, 30}
RecvLens == {0, 5, 9, 30}

\* std::min
Min(a, b) == IF a < b THEN a ELSE b

\* Mutant of ToWord16: the value saturates at 0xFFFF.
ToWord16_Saturate(x) == IF x >= Word16 THEN Word16 - 1 ELSE x

\* conversion of an int to uint16_t
ToWord16(x) == x % Word16

\* socketConnected: switch (socketStatus(socket_n))
socketConnectedValue_ListenConnected(status) ==
    status \in {"TCP_Connected", "UDP_Open", "TCP_Listen"}

socketConnectedValue(status) == status \in {"TCP_Connected", "UDP_Open"}

\* sendAvailable / receiveAvailable: the counter read when connected
CounterOf(op) ==
    IF op \in {"send", "sendAvailable"} THEN tx_free_size ELSE rx_received_size

\* rdSocketReg16_atomic: if ((tries >= 1) && (value == last_value))
atomic_stable_NoFirstGuard(tries, value, last_value) == value = last_value

atomic_stable(tries, value, last_value) == tries >= 1 /\ value = last_value

\* rdSocketReg16_atomic: for (...; tries < max_tries; tries++), after a read
\* that was not stable
atomic_more(tries) == tries + 1 < max_tries

\* send / receive: len = std::min(len, available)
ClampLen_Unclamped(len, available) == len

ClampLen(len, available) == Min(len, available)

\* receive: ((uint16_t)udp_header[6]) << 8 | udp_header[7]
HeaderLength(hdr) == hdr[7] * 256 + hdr[8]

\* receive: if (len < 8) return 0
HeaderFits(len) == len >= udp_header_size

\* receive: len = std::min(len-8, header length)
StripLen_WholeRequest(len, hdr) == len - udp_header_size

StripLen(len, hdr) == Min(len - udp_header_size, HeaderLength(hdr))

\* ------------------------------------------------- device: counters and ring
\* Content of ring memory that holds no queued data.
StaleByte == 0

\* What the device puts in the RX ring for a payload of L bytes: on a UDP
\* socket the 8-byte packet info (peer address and port, then the length of
\* the payload, high byte first) before the payload; on a TCP socket the
\* payload alone.
Datagram(L) == <<0, 0, 0, 0, 0, 0, L \div 256, L % 256>> \o [i \in 1 .. L |-> 1]
Arrival(s, L) == IF s = SOCK_UDP THEN Datagram(L) ELSE [i \in 1 .. L |-> 1]

\* rxbuf[n] is the queue of the arrivals not released yet, oldest first; its
\* bytes are the content of the ring that ends at Sn_RX_WR.
RECURSIVE Flat(_)
Flat(q) == IF q = <<>> THEN <<>> ELSE Head(q) \o Flat(Tail(q))

\* the queue without its first k bytes
RECURSIVE Drop(_, _)
Drop(q, k) ==
    IF k = 0 \/ q = <<>> THEN q
    ELSE IF k >= Len(Head(q)) THEN Drop(Tail(q), k - Len(Head(q)))
    ELSE <<SubSeq(Head(q), k + 1, Len(Head(q)))>> \o Tail(q)

RingBytes(n) == Flat(rxbuf[n])
RingBase(n) == ToWord16(reg16[n][rx_write_pointer] + Word16 - Len(RingBytes(n)))
RingByte(n, a) ==
    LET off == ToWord16(a + Word16 - RingBase(n))
    IN  IF off < Len(RingBytes(n)) THEN RingBytes(n)[off + 1] ELSE StaleByte
RingRead(n, p, k) == [i \in 1 .. k |-> RingByte(n, ToWord16(p + i - 1))]

\* The functions of this layer read the status once, in their first transfer,
\* and then the counter, until it is stable; what they read later (pointers,
\* queued bytes) the device does not change. A step of the device during a
\* call has the effect of the same step before the call or after it, unless a
\* read of a counter it changes comes next: device steps are taken between
\* calls and before the reads of that counter of that socket.
BeforeCounterRead(n, a) ==
    \/ pc = "idle"
    \/ pc = "d_atomic" /\ call.n = n /\ CounterOf(call.op) = a

\* Data arrives on an open socket and fits in the RX memory.
DevArrive ==
    \E n \in Sockets, L \in 1 .. MaxPayload :
        LET d == Arrival(sr[n], L) IN
        /\ BeforeCounterRead(n, rx_received_size)
        /\ sr[n] \in {SOCK_UDP, SOCK_ESTABLISHED}
        /\ reg16[n][rx_received_size] + Len(d) <= RxBufSize
        /\ Len(rxbuf[n]) < MaxQueued
        /\ rxbuf' = [rxbuf EXCEPT ![n] = Append(@, d)]
        /\ reg16' = [reg16 EXCEPT
                       ![n][rx_received_size] = @ + Len(d),
                       ![n][rx_write_pointer] = ToWord16(@ + Len(d))]
        /\ UNCHANGED <<devVars, hostVars, cs, wire, ctx, loc>>

\* The device has transmitted the data a SEND command handed over.
DevTransmit ==
    \E n \in Sockets :
        /\ BeforeCounterRead(n, tx_free_size)
        /\ reg16[n][tx_free_size] < TxBufSize
        /\ reg16' = [reg16 EXCEPT
                       ![n][tx_read_pointer] =
                           ToWord16(@ + TxBufSize - reg16[n][tx_free_size]),
                       ![n][tx_free_size] = TxBufSize]
        /\ UNCHANGED <<devVars, hostVars, cs, wire, ctx, rxbuf, loc>>

\* The device executes the command in Sn_CR and clears the register. SEND
\* takes the bytes up to Sn_TX_WR off the free size; RECV releases the bytes
\* up to Sn_RX_RD.
DevExecData ==
    \E n \in Sockets :
        LET pending == ToWord16(reg16[n][tx_write_pointer] + Word16
                                - reg16[n][tx_read_pointer])
            left == ToWord16(reg16[n][rx_write_pointer] + Word16
                             - reg16[n][rx_read_pointer])
        IN
        /\ \/ pc = "idle"
           \/ cr[n] = SEND /\ BeforeCounterRead(n, tx_free_size)
           \/ cr[n] = RECV /\ BeforeCounterRead(n, rx_received_size)
        /\ cr[n] # 0
        /\ sr' = [sr EXCEPT ![n] = DevCommand(cr[n], sr[n], mr[n])]
        /\ cr' = [cr EXCEPT ![n] = 0]
        /\ reg16' =
             CASE cr[n] = SEND ->
                    [reg16 EXCEPT ![n][tx_free_size] =
                        IF pending <= TxBufSize THEN TxBufSize - pending ELSE 0]
               [] cr[n] = RECV ->
                    [reg16 EXCEPT ![n][rx_received_size] = left]
               [] OTHER -> reg16
        /\ rxbuf' =
             IF cr[n] = RECV /\ left <= Len(RingBytes(n))
             THEN [rxbuf EXCEPT ![n] = Drop(@, Len(RingBytes(n)) - left)]
             ELSE rxbuf
        /\ UNCHANGED <<mr, phycfgr, hostVars, cs, wire, ctx, loc>>

\* A peer connects, answers, closes or times out.
DevNetData ==
    \E n \in Sockets :
        \E s \in DevNetwork(sr[n]) :
            /\ pc = "idle"
            /\ sr' = [sr EXCEPT ![n] = s]
            /\ UNCHANGED <<cr, mr, phycfgr, hostVars, extVars>>

\* ------------------------------------------------------ register access (host)
\* rdSocketReg16: two bytes read, high byte first, and put together
rdSocketReg16(n, a) ==
    LET data == <<reg16[n][a] \div 256, reg16[n][a] % 256>>
    IN  BitOr(data[1] * 256, data[2])

\* wrSocketReg16: the value split in two bytes, high byte first, written in one
\* frame; the device latches them.
wrSocketReg16(n, a, v) ==
    LET data_8 == <<ToWord16(v) \div 256, BitAnd(ToWord16(v), 255)>>
    IN  /\ log' = Append(log, Wr(SocketReg, n, a, data_8[1] * 256 + data_8[2]))
        /\ reg16' = [reg16 EXCEPT ![n][a] = data_8[1] * 256 + data_8[2]]

\* -------------------------------------------------- data transfer (host)
\* loc holds the locals of the running function: len (the length, as clamped so
\* far), avail (the value sendAvailable or receiveAvailable returned), tries
\* and last_value (rdSocketReg16_atomic), ptr (write_pointer or read_pointer);
\* and calls, the number of calls made in this run.
IdleLocals(k) ==
    [calls |-> k, len |-> 0, avail |-> 0, tries |-> 0, last_value |-> 0, ptr |-> 0]

DataGoto(p, lc) == [pc |-> p, result |-> result, loc |-> lc]
DataDone(v, lc) == [pc |-> "returned", result |-> v, loc |-> lc]

DataStep(nx) ==
    /\ pc' = nx.pc
    /\ result' = nx.result
    /\ loc' = nx.loc

\* return of sendAvailable / receiveAvailable with value v; in send and
\* receive the clamping of len and the test for nothing to do
DataAfterAvailable(v, lc) ==
    IF call.op \in {"sendAvailable", "receiveAvailable"}
    THEN DataDone(v, [lc EXCEPT !.avail = v])
    ELSE LET l == ClampLen(lc.len, v)
             nl == [lc EXCEPT !.avail = v, !.len = l]
         IN  IF l = 0 THEN DataDone(0, nl)
             ELSE DataGoto(IF call.op = "send" THEN "tx_ptr" ELSE "rx_ptr", nl)

\* return of socketStatus to socketConnected, and of socketConnected to its
\* caller
DataAfterStatus(status) ==
    IF call.op = "socketConnected"
    THEN DataDone(socketConnectedValue(status), loc)
    ELSE IF socketConnectedValue(status)
         THEN DataGoto("d_atomic", loc)
         ELSE DataAfterAvailable(0, loc)

CallData(op, n, len, strip) ==
    /\ pc = "idle"
    /\ loc.calls < MaxCalls
    /\ call' = [op |-> op, n |-> n, mode |-> NoMode, len |-> len, strip |-> strip]
    /\ loc' = [IdleLocals(loc.calls + 1) EXCEPT !.len = len]
    /\ result' = "pending"
    /\ pc' = "d_status"
    /\ UNCHANGED <<prev, log, st, cret, wfor, want, elapsed, devVars,
                   cs, wire, ctx, reg16, rxbuf>>

CallSocketConnected == \E n \in Sockets : CallData("socketConnected", n, 0, FALSE)
CallSendAvailable == \E n \in Sockets : CallData("sendAvailable", n, 0, FALSE)
CallReceiveAvailable == \E n \in Sockets : CallData("receiveAvailable", n, 0, FALSE)
CallSend == \E n \in Sockets, len \in SendLens : CallData("send", n, len, FALSE)
CallReceive ==
    \E n \in Sockets, len \in RecvLens, udpIgnoreHeader \in BOOLEAN :
        CallData("receive", n, len, udpIgnoreHeader)

\* The caller takes the returned value and goes on.
DataResume ==
    /\ pc = "returned"
    /\ pc' = "idle"
    /\ call' = [op |-> "none", n |-> 0, mode |-> NoMode]
    /\ result' = "none"
    /\ log' = <<>>
    /\ st' = NoByte
    /\ loc' = IdleLocals(loc.calls)
    /\ UNCHANGED <<prev, cret, wfor, want, elapsed, devVars, cs, wire, ctx, reg16, rxbuf>>

\* socketStatus inside socketConnected: switch (socketStatusReg(socket_n))
DataStatusRead ==
    /\ pc = "d_status"
    /\ log' = Append(log, Rd(SocketReg, call.n, status_register, socketStatusReg(call.n)))
    /\ st' = socketStatusReg(call.n)
    /\ DataStep(IF socketStatusCommand(socketStatusReg(call.n)) = 0
                THEN DataAfterStatus(socketStatusValue(socketStatusReg(call.n)))
                ELSE DataGoto("d_scmd", loc))
    /\ UNCHANGED <<call, prev, cret, wfor, want, elapsed, devVars,
                   cs, wire, ctx, reg16, rxbuf>>

\* socketStatus inside socketConnected: socketCommand(socket_n, CLOSE or DISCONNECT)
DataStatusCommand ==
    /\ pc = "d_scmd"
    /\ socketCommand(call.n, socketStatusCommand(st))
    /\ DataStep(DataAfterStatus(socketStatusValue(st)))
    /\ UNCHANGED <<call, prev, st, cret, wfor, want, elapsed,
                   cs, wire, ctx, reg16, rxbuf>>

\* rdSocketReg16_atomic: one turn of the loop
AtomicRead ==
    /\ pc = "d_atomic"
    /\ LET value == rdSocketReg16(call.n, CounterOf(call.op)) IN
         /\ log' = Append(log, Rd(SocketReg, call.n, CounterOf(call.op), value))
         /\ DataStep(IF atomic_stable(loc.tries, value, loc.last_value)
                     THEN DataAfterAvailable(value, loc)
                     ELSE IF atomic_more(loc.tries)
                          THEN DataGoto("d_atomic",
                                        [loc EXCEPT !.tries = @ + 1,
                                                    !.last_value = value])
                          ELSE DataAfterAvailable(0, loc))
    /\ UNCHANGED <<call, prev, st, cret, wfor, want, elapsed, devVars,
                   cs, wire, ctx, reg16, rxbuf>>

\* send: write_pointer = rdSocketReg16(socket_n, tx_write_pointer)
SendPointer ==
    /\ pc = "tx_ptr"
    /\ LET p == rdSocketReg16(call.n, tx_write_pointer) IN
         /\ log' = Append(log, Rd(SocketReg, call.n, tx_write_pointer, p))
         /\ DataStep(DataGoto("tx_buf", [loc EXCEPT !.ptr = p]))
    /\ UNCHANGED <<call, prev, st, cret, wfor, want, elapsed, devVars,
                   cs, wire, ctx, reg16, rxbuf>>

\* send: the transfer of len bytes to the TX buffer at write_pointer
SendBuffer ==
    /\ pc = "tx_buf"
    /\ log' = Append(log, Wr(TxBuffer, call.n, loc.ptr, loc.len))
    /\ DataStep(DataGoto("tx_wr", loc))
    /\ UNCHANGED <<call, prev, st, cret, wfor, want, elapsed, devVars,
                   cs, wire, ctx, reg16, rxbuf>>

\* send: wrSocketReg16(socket_n, tx_write_pointer, write_pointer + len)
SendPointerWrite ==
    /\ pc = "tx_wr"
    /\ wrSocketReg16(call.n, tx_write_pointer, loc.ptr + loc.len)
    /\ DataStep(DataGoto("tx_cmd", loc))
    /\ UNCHANGED <<call, prev, st, cret, wfor, want, elapsed, devVars,
                   cs, wire, ctx, rxbuf>>

\* send: socketCommand(socket_n, SEND); return len
SendCommand ==
    /\ pc = "tx_cmd"
    /\ socketCommand(call.n, SEND)
    /\ DataStep(DataDone(loc.len, loc))
    /\ UNCHANGED <<call, prev, st, cret, wfor, want, elapsed,
                   cs, wire, ctx, reg16, rxbuf>>

\* Mutant of ReceivePointer: a length too short for the header is consumed
\* without one.
ReceivePointer_ConsumeShort ==
    /\ pc = "rx_ptr"
    /\ LET p == rdSocketReg16(call.n, rx_read_pointer)
           nl == [loc EXCEPT !.ptr = p]
       IN
         /\ log' = Append(log, Rd(SocketReg, call.n, rx_read_pointer, p))
         /\ DataStep(IF ~call.strip THEN DataGoto("rx_buf", nl)
                     ELSE IF HeaderFits(loc.len) THEN DataGoto("rx_hdr", nl)
                     ELSE DataGoto("rx_wr", nl))
    /\ UNCHANGED <<call, prev, st, cret, wfor, want, elapsed, devVars,
                   cs, wire, ctx, reg16, rxbuf>>

\* receive: read_pointer = rdSocketReg16(socket_n, rx_read_pointer), and the
\* test of len against the header size when the header is to be ignored
ReceivePointer ==
    /\ pc = "rx_ptr"
    /\ LET p == rdSocketReg16(call.n, rx_read_pointer)
           nl == [loc EXCEPT !.ptr = p]
       IN
         /\ log' = Append(log, Rd(SocketReg, call.n, rx_read_pointer, p))
         /\ DataStep(IF ~call.strip THEN DataGoto("rx_buf", nl)
                     ELSE IF HeaderFits(loc.len) THEN DataGoto("rx_hdr", nl)
                     ELSE DataDone(0, nl))
    /\ UNCHANGED <<call, prev, st, cret, wfor, want, elapsed, devVars,
                   cs, wire, ctx, reg16, rxbuf>>

\* Mutant of ReceiveHeader: read_pointer is not advanced past the header.
ReceiveHeader_PointerNotAdvanced ==
    /\ pc = "rx_hdr"
    /\ LET udp_header == RingRead(call.n, loc.ptr, udp_header_size) IN
         /\ log' = Append(log, Rd(RxBuffer, call.n, loc.ptr, udp_header))
         /\ DataStep(DataGoto("rx_buf",
                [loc EXCEPT !.len = ToWord16(StripLen(loc.len, udp_header)),
                            !.ptr = ToWord16(loc.ptr)]))
    /\ UNCHANGED <<call, prev, st, cret, wfor, want, elapsed, devVars,
                   cs, wire, ctx, reg16, rxbuf>>

\* receive: the transfer of the 8 header bytes, the clamping of len to the
\* length in the header, read_pointer += 8
ReceiveHeader ==
    /\ pc = "rx_hdr"
    /\ LET udp_header == RingRead(call.n, loc.ptr, udp_header_size) IN
         /\ log' = Append(log, Rd(RxBuffer, call.n, loc.ptr, udp_header))
         /\ DataStep(DataGoto("rx_buf",
                [loc EXCEPT !.len = ToWord16(StripLen(loc.len, udp_header)),
                            !.ptr = ToWord16(loc.ptr + udp_header_size)]))
    /\ UNCHANGED <<call, prev, st, cret, wfor, want, elapsed, devVars,
                   cs, wire, ctx, reg16, rxbuf>>

\* receive: the transfer of len bytes from the RX buffer at read_pointer
ReceiveBuffer ==
    /\ pc = "rx_buf"
    /\ log' = Append(log, Rd(RxBuffer, call.n, loc.ptr,
                             RingRead(call.n, loc.ptr, loc.len)))
    /\ DataStep(DataGoto("rx_wr", loc))
    /\ UNCHANGED <<call, prev, st, cret, wfor, want, elapsed, devVars,
                   cs, wire, ctx, reg16, rxbuf>>

\* receive: wrSocketReg16(socket_n, rx_read_pointer, read_pointer + len)
ReceivePointerWrite ==
    /\ pc = "rx_wr"
    /\ wrSocketReg16(call.n, rx_read_pointer, loc.ptr + loc.len)
    /\ DataStep(DataGoto("rx_cmd", loc))
    /\ UNCHANGED <<call, prev, st, cret, wfor, want, elapsed, devVars,
                   cs, wire, ctx, rxbuf>>

\* receive: socketCommand(socket_n, RECV); return len
ReceiveCommand ==
    /\ pc = "rx_cmd"
    /\ socketCommand(call.n, RECV)
    /\ DataStep(DataDone(loc.len, loc))
    /\ UNCHANGED <<call, prev, st, cret, wfor, want, elapsed,
                   cs, wire, ctx, reg16, rxbuf>>

\* ------------------------------------------- specification of the data layer
\* One socket in any status and the others closed, with an empty RX memory,
\* the pointers at the start of the address space or shortly before they wrap;
\* the link is up.
ModeOfStatus(s) ==
    IF s = SOCK_CLOSED THEN 0
    ELSE IF s = SOCK_UDP THEN mode_value("UDP") ELSE mode_value("TCP_Client")

InitData ==
    /\ \E n \in Sockets, s \in RawStatus :
         sr = [m \in Sockets |-> IF m = n THEN s ELSE SOCK_CLOSED]
    /\ cr = [n \in Sockets |-> 0]
    /\ mr = [n \in Sockets |-> ModeOfStatus(sr[n])]
    /\ phycfgr \in {v \in PhyValues : LinkUp(v)}
    /\ pc = "idle"
    /\ call = [op |-> "none", n |-> 0, mode |-> NoMode]
    /\ prev = NoCall
    /\ result = "none"
    /\ log = <<>>
    /\ st = NoByte
    /\ cret = "none"
    /\ wfor = "none"
    /\ want = NoByte
    /\ elapsed = 0
    /\ cs = "HIGH"
    /\ wire = <<>>
    /\ ctx = <<>>
    /\ \E p \in StartPointers, pending \in StartPending :
         reg16 = [n \in Sockets |->
                    [a \in Reg16 |->
                       CASE a = tx_free_size -> TxBufSize - pending
                         [] a = tx_write_pointer -> ToWord16(p + pending)
                         [] a = rx_received_size -> 0
                         [] OTHER -> p]]
    /\ rxbuf = [n \in Sockets |-> <<>>]
    /\ loc = IdleLocals(0)

NextData ==
    \/ CallSocketConnected
    \/ CallSendAvailable
    \/ CallReceiveAvailable
    \/ CallSend
    \/ CallReceive
    \/ DataResume
    \/ DataStatusRead
    \/ DataStatusCommand
    \/ AtomicRead
    \/ SendPointer
    \/ SendBuffer
    \/ SendPointerWrite
    \/ SendCommand
    \/ ReceivePointer
    \/ ReceiveHeader
    \/ ReceiveBuffer
    \/ ReceivePointerWrite
    \/ ReceiveCommand
    \/ DevArrive
    \/ DevTransmit
    \/ DevExecData
    \/ DevNetData

SpecData == InitData /\ [][NextData]_allVars

\* ------------------------------------------ reading the log of a data call
\* the values the call read from the 16-bit register a, in order
ValuesRead(a) ==
    LET IsIt(e) == e.k = "rd" /\ e.b = SocketReg /\ e.a = a
        rs == SelectSeq(log, IsIt)
    IN  [i \in 1 .. Len(rs) |-> rs[i].v]

\* the value of the first read that equals the read before it; 0 if none does
FirstRepeat(rs) ==
    LET Agree == {i \in 2 .. Len(rs) : rs[i] = rs[i - 1]}
    IN  IF Agree = {} THEN 0
        ELSE rs[CHOOSE i \in Agree : \A j \in Agree : i <= j]

\* availability (counter a) as the claims define it, from the status and the
\* counter values the call read
Availability(a) ==
    IF StatusTable(log[1].v).ret \in {"TCP_Connected", "UDP_Open"}
    THEN FirstRepeat(ValuesRead(a))
    ELSE 0

Smaller(a, b) == IF a <= b THEN a ELSE b

\* the writes of the call to block b at offset a
WritesTo(b, a) ==
    LET IsIt(e) == e.k = "wr" /\ e.b = b /\ e.a = a
    IN  SelectSeq(log, IsIt)
BufferWrites(b) ==
    LET IsIt(e) == e.k = "wr" /\ e.b = b
    IN  SelectSeq(log, IsIt)
CommandsWritten(c) ==
    LET IsIt(e) == e.k = "wr" /\ e.b = SocketReg /\ e.a = command_register /\ e.v = c
    IN  SelectSeq(log, IsIt)

\* C11: send returns the smaller of the requested length and the send
\* availability, which is 0 unless the status read maps to TCP_Connected or
\* UDP_Open and else the stable value of the free-TX-size counter; a send that
\* returns 0 after clamping writes neither the TX buffer, nor the TX write
\* pointer, nor the SEND command.
C11_SendClampedToAvailability ==
    (Returned /\ call.op = "send") =>
        /\ result = Smaller(call.len, Availability(tx_free_size))
        /\ result = 0 =>
             /\ BufferWrites(TxBuffer) = <<>>
             /\ WritesTo(SocketReg, tx_write_pointer) = <<>>
             /\ CommandsWritten(SEND) = <<>>

C11_Witness ==
    /\ Returned
    /\ call.op = "send"
    /\ call.len > TxBufSize
    /\ Availability(tx_free_size) = TxBufSize
    /\ result = TxBufSize

\* C12: receive never returns more than the receive availability (0 unless
\* connected, else the stable value of the RX-received-size counter): without
\* header stripping it returns the smaller of the requested length and the
\* availability; with header stripping the payload returned and the 8 header
\* bytes read before it together do not exceed the availability.
C12_ReceiveWithinAvailability ==
    (Returned /\ call.op = "receive") =>
        LET avail == Availability(rx_received_size)
            headers == LET IsIt(e) == e.k = "rd" /\ e.b = RxBuffer /\ Len(e.v) = 8
                                      /\ e.a = ValuesRead(rx_read_pointer)[1]
                       IN  IF call.strip /\ ValuesRead(rx_read_pointer) # <<>>
                           THEN Len(SelectSeq(log, IsIt)) ELSE 0
        IN  /\ result <= avail
            /\ ~call.strip => result = Smaller(call.len, avail)
            /\ call.strip =>
                 /\ headers > 0 => result + 8 <= avail
                 /\ headers = 0 => result = 0

C12_Witness ==
    /\ Returned
    /\ call.op = "receive"
    /\ call.strip
    /\ result > 0
    /\ result + 8 = Availability(rx_received_size)

\* the RX read pointer the call worked with: the value it read, or the value
\* of the register when it returned before reading it
ReadPointer ==
    IF ValuesRead(rx_read_pointer) # <<>> THEN ValuesRead(rx_read_pointer)[1]
    ELSE reg16[call.n][rx_read_pointer]

\* the arrivals queued that start at ring address p (at most one)
ArrivalsAt(n, p) ==
    {k \in 1 .. Len(rxbuf[n]) :
        Len(Flat(SubSeq(rxbuf[n], 1, k - 1))) = ToWord16(p + Word16 - RingBase(n))}

\* the ring of socket n holds at address p an 8-byte header that declares a
\* payload of L bytes, followed by these L bytes
DatagramAt(n, p, L) == \E k \in ArrivalsAt(n, p) : rxbuf[n][k] = Datagram(L)

\* the reads of the call from the RX buffer
RxReads ==
    LET IsIt(e) == e.k = "rd" /\ e.b = RxBuffer
    IN  SelectSeq(log, IsIt)

\* C13: header-stripping receive with a requested length of at least 8, the
\* ring holding at the read pointer a header that declares L payload bytes and
\* then these bytes, the counter read stably: the call returns exactly
\* min(requested - 8, L) bytes, read right behind that header, whatever is
\* queued behind the datagram.
C13_StripReturnsOneDatagram ==
    \A L \in 0 .. MaxPayload :
        (/\ Returned
         /\ call.op = "receive"
         /\ call.strip
         /\ call.len >= 8
         /\ DatagramAt(call.n, ReadPointer, L)
         /\ FirstRepeat(ValuesRead(rx_received_size)) # 0)
        => /\ result = Smaller(call.len - 8, L)
           /\ Len(RxReads) = 2
           /\ RxReads[1].a = ReadPointer
           /\ RxReads[1].v = SubSeq(Datagram(L), 1, 8)
           /\ RxReads[2].a = ToWord16(ReadPointer + 8)
           /\ RxReads[2].v = SubSeq(Datagram(L), 9, 8 + result)

C13_Witness ==
    /\ Returned
    /\ call.op = "receive"
    /\ call.strip
    /\ call.len = 30
    /\ Len(rxbuf[call.n]) = 2
    /\ DatagramAt(call.n, ReadPointer, 1)
    /\ Availability(rx_received_size) = Len(RingBytes(call.n))
    /\ result = 1

\* C14: header-stripping receive whose length after clamping to the
\* availability is below 8 returns 0, does not write the RX read pointer and
\* issues no RECV command.
C14_StripShortConsumesNothing ==
    (/\ Returned
     /\ call.op = "receive"
     /\ call.strip
     /\ Smaller(call.len, Availability(rx_received_size)) < 8)
    => /\ result = 0
       /\ WritesTo(SocketReg, rx_read_pointer) = <<>>
       /\ CommandsWritten(RECV) = <<>>
       /\ RxReads = <<>>

C14_Witness ==
    /\ Returned
    /\ call.op = "receive"
    /\ call.strip
    /\ Smaller(call.len, Availability(rx_received_size)) \in 1 .. 7
    /\ ValuesRead(rx_read_pointer) # <<>>
    /\ result = 0

\* =========================================================================
\* rdSocketReg16_atomic on its own, reading a counter that takes any value.
\* =========================================================================

\* Bound: the counter takes the values 0 .. MaxCounter.
MaxCounter == 1
CounterValues == 0 .. MaxCounter

\* What is kept of the reads of the call: their number, the value of the
\* latest one, the number of the first read that equals the read before it
\* (0 if there is none so far) and its value.
NoReads == [n |-> 0, last |-> NoByte, agree |-> 0, val |-> NoByte]
NoteRead(h, v) ==
    LET first == h.agree = 0 /\ h.n >= 1 /\ v = h.last
    IN  [n |-> h.n + 1,
         last |-> v,
         agree |-> IF first THEN h.n + 1 ELSE h.agree,
         val |-> IF first THEN v ELSE h.val]

InitAtomic ==
    /\ sr = [n \in Sockets |-> SOCK_CLOSED]
    /\ cr = [n \in Sockets |-> 0]
    /\ mr = [n \in Sockets |-> 0]
    /\ phycfgr \in {v \in PhyValues : LinkUp(v)}
    /\ pc = "idle"
    /\ call = [op |-> "none", n |-> 0, mode |-> NoMode]
    /\ prev = NoCall
    /\ result = "none"
    /\ log = NoReads
    /\ st = NoByte
    /\ cret = "none"
    /\ wfor = "none"
    /\ want = NoByte
    /\ elapsed = 0
    /\ cs = "HIGH"
    /\ wire = <<>>
    /\ ctx = <<>>
    /\ reg16 = [n \in Sockets |-> [a \in Reg16 |-> 0]]
    /\ rxbuf = [n \in Sockets |-> <<>>]
    /\ loc = IdleLocals(0)

\* rdSocketReg16_atomic(socket_n, offset): last_value = 0, tries = 0
CallAtomic ==
    \E n \in Sockets, a \in {tx_free_size, rx_received_size} :
        /\ pc = "idle"
        /\ call' = [op |-> "rdSocketReg16_atomic", n |-> n, mode |-> NoMode, a |-> a]
        /\ loc' = IdleLocals(0)
        /\ log' = NoReads
        /\ result' = "pending"
        /\ pc' = "a_loop"
        /\ UNCHANGED <<prev, st, cret, wfor, want, elapsed, devVars,
                       cs, wire, ctx, reg16, rxbuf>>

\* one turn of the loop: the read, the comparison with the read before, and
\* the return or the next turn
AtomicLoop ==
    /\ pc = "a_loop"
    /\ LET value == rdSocketReg16(call.n, call.a) IN
         /\ log' = NoteRead(log, value)
         /\ DataStep(IF atomic_stable(loc.tries, value, loc.last_value)
                     THEN DataDone(value, loc)
                     ELSE IF atomic_more(loc.tries)
                          THEN DataGoto("a_loop",
                                        [loc EXCEPT !.tries = @ + 1,
                                                    !.last_value = value])
                          ELSE DataDone(0, loc))
    /\ UNCHANGED <<call, prev, st, cret, wfor, want, elapsed, devVars,
                   cs, wire, ctx, reg16, rxbuf>>

\* The caller takes the returned value and goes on.
AtomicResume ==
    /\ pc = "returned"
    /\ call.op = "rdSocketReg16_atomic"
    /\ pc' = "idle"
    /\ call' = [op |-> "none", n |-> 0, mode |-> NoMode]
    /\ result' = "none"
    /\ log' = NoReads
    /\ loc' = IdleLocals(0)
    /\ UNCHANGED <<prev, st, cret, wfor, want, elapsed, devVars,
                   cs, wire, ctx, reg16, rxbuf>>

\* The device changes the counter before a read.
DevCounter ==
    /\ pc = "a_loop"
    /\ \E v \in CounterValues \ {reg16[call.n][call.a]} :
         reg16' = [reg16 EXCEPT ![call.n][call.a] = v]
    /\ UNCHANGED <<devVars, hostVars, cs, wire, ctx, rxbuf, loc>>

NextAtomic ==
    \/ CallAtomic
    \/ AtomicLoop
    \/ AtomicResume
    \/ DevCounter

SpecAtomic == InitAtomic /\ [][NextAtomic]_allVars

\* C15: rdSocketReg16_atomic makes at least 2 and at most 20 reads; it returns
\* the value of the first read that equals the read before it, right after
\* that read; when none of the 20 reads equals the read before it, it returns
\* 0. (So one read alone never makes it return, and when reads 5 and 6 are the
\* first to agree it returns their value after exactly 6 reads.)
C15_AtomicReadStable ==
    (Returned /\ call.op = "rdSocketReg16_atomic") =>
        /\ log.n \in 2 .. 20
        /\ log.agree # 0 => (result = log.val /\ log.n = log.agree)
        /\ log.agree = 0 => (result = 0 /\ log.n = 20)

C15_Witness ==
    /\ Returned
    /\ call.op = "rdSocketReg16_atomic"
    /\ log.agree = 6
    /\ log.n = 6
    /\ result = log.val

\* =========================================================================
\* SpiFrame: init and transfer on the bus, one step per call of the SPI
\* library or of digitalWrite.
\* =========================================================================

\* Bounds: longest data phase of a transfer, number of contexts that use the
\* bus in the shared-bus specification, number of transfers that overlap in
\* one record of the bus.
MaxLen == 2
NumContexts == 2
MaxTransfers == 2
Contexts == 1 .. NumContexts

\* Frame descriptors. The frames of a single caller take every socket index,
\* block and direction; the contexts that share the bus use two of them.
FrameSockets == 0 .. 7
FrameBlocks == {CommonReg, SocketReg, TxBuffer, RxBuffer}
Read == 0
Write == 1
FrameAddrs == {phy_config, 65528}
Frames ==
    [offset_addr : FrameAddrs, socket_n : FrameSockets, bsb : FrameBlocks,
     rw : {Read, Write}]
SharedFrames ==
    {[offset_addr |-> status_register, socket_n |-> 0, bsb |-> SocketReg, rw |-> Read],
     [offset_addr |-> 65528, socket_n |-> 1, bsb |-> TxBuffer, rw |-> Write]}

\* SPI.transfer16(v) with MSBFIRST: the high byte, then the low byte
transfer16(v) == <<v \div 256, v % 256>>

\* SPI.transfer(uint8_t): (frame.socket_n<<2 | frame.bsb) << 3 | frame.rw << 2
control_byte_DirectionUnshifted(frame) ==
    BitOr(BitOr(frame.socket_n * 4, frame.bsb) * 8, frame.rw) % 256

control_byte(frame) ==
    BitOr(BitOr(frame.socket_n * 4, frame.bsb) * 8, frame.rw * 4) % 256

\* events on the bus; each tells the level of chip-select when it happened
SelectEv(c) == [ev |-> "select", c |-> c]
DeselectEv(c) == [ev |-> "deselect", c |-> c]
ByteEv(c, v) == [ev |-> "byte", c |-> c, v |-> v, cs |-> cs]
DataEv(c) == [ev |-> "data", c |-> c, cs |-> cs]

\* SPI.transfer(data, len): len bytes shifted
data_phase_OneByteShort(c, len) == [i \in 1 .. (IF len > 0 THEN len - 1 ELSE 0) |-> DataEv(c)]

data_phase(c, len) == [i \in 1 .. len |-> DataEv(c)]

NoFrame == [pc |-> "idle", len |-> 0]

\* transfers in the record of the bus, those about to select included
Started ==
    Cardinality({i \in 1 .. Len(wire) : wire[i].ev = "select"})
        + Cardinality({c \in Contexts : ctx[c].pc = "t_select"})

\* The object after construction: the pin not driven yet.
InitBus ==
    /\ sr = [n \in Sockets |-> SOCK_CLOSED]
    /\ cr = [n \in Sockets |-> 0]
    /\ mr = [n \in Sockets |-> 0]
    /\ phycfgr \in {v \in PhyValues : LinkUp(v)}
    /\ pc = "idle"
    /\ call = [op |-> "none", n |-> 0, mode |-> NoMode]
    /\ prev = NoCall
    /\ result = "none"
    /\ log = <<>>
    /\ st = NoByte
    /\ cret = "none"
    /\ wfor = "none"
    /\ want = NoByte
    /\ elapsed = 0
    /\ cs = "unset"
    /\ wire = <<>>
    /\ ctx = [c \in Contexts |-> NoFrame]
    /\ reg16 = <<>>
    /\ rxbuf = <<>>
    /\ loc = <<>>

busOther == <<devVars, hostVars, reg16, rxbuf, loc>>

\* SpiFrame::init: digitalWrite(cs, HIGH)
SpiInit ==
    /\ cs = "unset"
    /\ cs' = "HIGH"
    /\ UNCHANGED <<wire, ctx, busOther>>

\* a context calls transfer(frame, data, len); the record of the bus starts
\* anew when no other transfer is running
CallTransfer(c, fs) ==
    \E frame \in fs, len \in 0 .. MaxLen :
        /\ cs # "unset"
        /\ ctx[c].pc = "idle"
        /\ (\A o \in Contexts : ctx[o].pc = "idle") \/ Started < MaxTransfers
        /\ ctx' = [ctx EXCEPT ![c] = [pc |-> "t_select", frame |-> frame, len |-> len]]
        /\ wire' = IF \A o \in Contexts : ctx[o].pc = "idle" THEN <<>> ELSE wire
        /\ UNCHANGED <<cs, busOther>>

\* digitalWrite(cs, LOW)
TransferSelect(c) ==
    /\ ctx[c].pc = "t_select"
    /\ cs' = "LOW"
    /\ wire' = Append(wire, SelectEv(c))
    /\ ctx' = [ctx EXCEPT ![c].pc = "t_addr"]
    /\ UNCHANGED busOther

\* SPI.transfer16(frame.offset_addr)
TransferAddress(c) ==
    /\ ctx[c].pc = "t_addr"
    /\ wire' = wire \o [i \in 1 .. 2 |-> ByteEv(c, transfer16(ctx[c].frame.offset_addr)[i])]
    /\ ctx' = [ctx EXCEPT ![c].pc = "t_ctrl"]
    /\ UNCHANGED <<cs, busOther>>

\* SPI.transfer(control byte)
TransferControl(c) ==
    /\ ctx[c].pc = "t_ctrl"
    /\ wire' = Append(wire, ByteEv(c, control_byte(ctx[c].frame)))
    /\ ctx' = [ctx EXCEPT ![c].pc = "t_data"]
    /\ UNCHANGED <<cs, busOther>>

\* SPI.transfer(data, len)
TransferData(c) ==
    /\ ctx[c].pc = "t_data"
    /\ wire' = wire \o data_phase(c, ctx[c].len)
    /\ ctx' = [ctx EXCEPT ![c].pc = "t_desel"]
    /\ UNCHANGED <<cs, busOther>>

\* digitalWrite(cs, HIGH) and return
TransferDeselect(c) ==
    /\ ctx[c].pc = "t_desel"
    /\ cs' = "HIGH"
    /\ wire' = Append(wire, DeselectEv(c))
    /\ ctx' = [ctx EXCEPT ![c].pc = "idle"]
    /\ UNCHANGED busOther

\* A single caller.
NextBus ==
    \/ SpiInit
    \/ CallTransfer(1, Frames)
    \/ TransferSelect(1)
    \/ TransferAddress(1)
    \/ TransferControl(1)
    \/ TransferData(1)
    \/ TransferDeselect(1)

SpecBus == InitBus /\ [][NextBus]_allVars

\* Several contexts (threads, interrupt handlers) that call transfer on the
\* same SpiFrame; a context is preempted between any two of its calls of the
\* SPI library.
NextSharedBus ==
    \/ SpiInit
    \/ \E c \in Contexts : CallTransfer(c, SharedFrames)
    \/ \E c \in Contexts : TransferSelect(c)
    \/ \E c \in Contexts : TransferAddress(c)
    \/ \E c \in Contexts : TransferControl(c)
    \/ \E c \in Contexts : TransferData(c)
    \/ \E c \in Contexts : TransferDeselect(c)

SpecSharedBus == InitBus /\ [][NextSharedBus]_allVars

\* the context is between its select and its deselect
Selected(c) == ctx[c].pc \in {"t_addr", "t_ctrl", "t_data", "t_desel"}

\* C16: the transfers of two or more contexts on one bus exclude each other:
\* no two contexts are between select-assert and select-deassert at once (so
\* no select window holds bytes of two transfers, and no transfer deasserts
\* select while another one shifts).
C16_TransfersExcludeEachOther ==
    \A c1 \in Contexts, c2 \in Contexts :
        (c1 # c2) => ~(Selected(c1) /\ Selected(c2))


\* C17: with a single caller, a finished transfer has put on the bus exactly
\* select-assert, 2 address bytes, 1 control byte, len data bytes and
\* select-deassert; select is deasserted after init and between transfers, and
\* every byte is shifted while select is asserted.
C17_SingleCallerSequence ==
    /\ (ctx[1].pc = "idle" /\ wire # <<>>) =>
           /\ Len(wire) = ctx[1].len + 5
           /\ wire[1].ev = "select"
           /\ \A i \in 2 .. 4 : wire[i].ev = "byte"
           /\ \A i \in 5 .. (4 + ctx[1].len) : wire[i].ev = "data"
           /\ wire[Len(wire)].ev = "deselect"
    /\ (cs # "unset" /\ ctx[1].pc \in {"idle", "t_select"}) => cs = "HIGH"
    /\ \A i \in 1 .. Len(wire) :
           wire[i].ev \in {"byte", "data"} => wire[i].cs = "LOW"

C17_Witness ==
    /\ ctx[1].pc = "idle"
    /\ wire # <<>>
    /\ ctx[1].len > 1
    /\ cs = "HIGH"

\* the (socket, block, direction) tuples of the frame format
Tuples == [socket_n : FrameSockets, bsb : FrameBlocks, rw : {Read, Write}]

\* C18: the header of a transfer is the high byte of the offset address, its
\* low byte, and the control byte ((socket << 2) | block) << 3 | direction << 2;
\* for socket 0..7, block 0..3, direction 0..1 that byte fits in 8 bits, has
\* its two low bits clear, and no other tuple gives the same byte.
C18_HeaderBytes ==
    (Len(wire) >= 4) =>
        LET f == ctx[1].frame
            cb == (f.socket_n * 4 + f.bsb) * 8 + f.rw * 4
        IN  /\ wire[2].v = f.offset_addr \div 256
            /\ wire[3].v = f.offset_addr % 256
            /\ wire[4].v = cb
            /\ cb < 256
            /\ wire[4].v % 4 = 0
            /\ \A g \in Tuples :
                   (<<g.socket_n, g.bsb, g.rw>> # <<f.socket_n, f.bsb, f.rw>>)
                       => control_byte(g) # wire[4].v

C18_Witness ==
    /\ Len(wire) >= 4
    /\ ctx[1].frame.socket_n = 7
    /\ ctx[1].frame.bsb = RxBuffer
    /\ ctx[1].frame.rw = Write
    /\ ctx[1].frame.offset_addr = 65528
    /\ wire[2].v = 255
    /\ wire[3].v = 248
    /\ wire[4].v = 252


\* =========================================================================
\* SpiFrame::wait_for_value with its parameters: the mask, the value and the
\* timeout in clock units, static_cast<unsigned long>(timeout_seconds * 1000).
\* =========================================================================
Timeouts == 0 .. TimeoutMs
WaitMasks == {255, 16, 0}
WaitValues == {SOCK_CLOSED, 16, SOCK_INIT}
\* bytes the polled register gives
WaitBytes == {SOCK_CLOSED, SOCK_INIT, SOCK_ESTABLISHED}

\* while ((millis() - start_time) < timeout)
wait_in_window_Inclusive(el, timeout) == el <= timeout

wait_in_window(el, timeout) == el < timeout

ReadEv(at, data) == [ev |-> "read", at |-> at, data |-> data]
SleepEv == [ev |-> "sleep"]

waitOther == <<devVars, prev, st, cret, wfor, want, extVars>>

\* start_time = millis()
CallWait ==
    /\ pc = "idle"
    /\ \E mask \in WaitMasks, value \in WaitValues, timeout \in Timeouts :
         call' = [op |-> "wait_for_value", n |-> 0, mode |-> NoMode,
                  mask |-> mask, value |-> value, timeout |-> timeout]
    /\ pc' = "v_check"
    /\ elapsed' = 0
    /\ log' = <<>>
    /\ result' = "none"
    /\ UNCHANGED waitOther

\* the loop condition; return false when it fails
WaitCheck ==
    /\ pc = "v_check"
    /\ IF wait_in_window(elapsed, call.timeout)
       THEN /\ pc' = "v_read"
            /\ UNCHANGED result
       ELSE /\ pc' = "returned"
            /\ result' = FALSE
    /\ UNCHANGED <<call, elapsed, log, waitOther>>

\* transfer(frame, &data, 1); if ((data & mask) == value) return true
WaitTransfer ==
    /\ pc = "v_read"
    /\ \E data \in WaitBytes :
         /\ log' = Append(log, ReadEv(elapsed, data))
         /\ IF Matches(data, call.mask, call.value)
            THEN /\ pc' = "returned"
                 /\ result' = TRUE
            ELSE /\ pc' = "v_delay"
                 /\ UNCHANGED result
    /\ UNCHANGED <<call, elapsed, waitOther>>

\* delay(1): the clock has advanced by 1 at least when it returns
WaitDelay ==
    /\ pc = "v_delay"
    /\ \E d \in 1 .. MaxDelay :
         elapsed' = IF elapsed + d < call.timeout THEN elapsed + d ELSE call.timeout
    /\ log' = Append(log, SleepEv)
    /\ pc' = "v_check"
    /\ UNCHANGED <<call, result, waitOther>>

WaitResume ==
    /\ pc = "returned"
    /\ call.op = "wait_for_value"
    /\ pc' = "idle"
    /\ UNCHANGED <<call, result, log, elapsed, waitOther>>

NextWait ==
    \/ CallWait
    \/ WaitCheck
    \/ WaitTransfer
    \/ WaitDelay
    \/ WaitResume

SpecWait == Init /\ [][NextWait]_allVars

\* the read matched: (data & mask) == value
ReadMatched(i) ==
    /\ log[i].ev = "read"
    /\ BitAnd(log[i].data, call.mask) = call.value

\* C19: wait_for_value returns true exactly when one of its reads, started
\* with the elapsed time below the timeout, matched, and that read is the last
\* thing it did; it returns false only with the elapsed time at the timeout
\* and a sleep after each read; with timeout 0 it reads nothing and returns
\* false.
C19_WaitForValue ==
    (Returned /\ call.op = "wait_for_value") =>
        /\ \A i \in 1 .. Len(log) :
               log[i].ev = "read" => log[i].at < call.timeout
        /\ (result = TRUE) <=> (\E i \in 1 .. Len(log) : ReadMatched(i))
        /\ (result = TRUE) =>
               /\ ReadMatched(Len(log))
               /\ \A i \in 1 .. (Len(log) - 1) : ~ReadMatched(i)
        /\ (result = FALSE) =>
               /\ elapsed >= call.timeout
               /\ \A i \in 1 .. Len(log) :
                      log[i].ev = "read" =>
                          (i < Len(log) /\ log[i + 1].ev = "sleep")
        /\ (call.timeout = 0) => (log = <<>> /\ result = FALSE)

\* true at the second read, after a read that did not match and a sleep
C19_Witness ==
    /\ Returned
    /\ call.op = "wait_for_value"
    /\ result = TRUE
    /\ Len(log) = 3
    /\ call.mask = 16


\* =========================================================================
\* regInterfaceAddress and regSocketAddress: access to a part of an IP or MAC
\* address field.
\* =========================================================================
gateway_ip == 1
subnet_mask == 5
source_mac == 9
source_ip == 15
destination_mac == 6
destination_ip == 12
\* sizeof(IP_t), sizeof(MAC_t)
SizeofIP == 4
SizeofMAC == 6

InterfaceAddress == {"GatewayIP", "SubnetMask", "SourceIP", "SourceMAC"}
SocketAddress == {"DestinationIP", "DestinationMAC"}
\* uint8_t len and offset
AddrLens == {0, 1, 3, 4, 6, 7, 255}
AddrOffsets == {0, 1, 3, 4, 5, 6, 7, 255}

\* the switch of regInterfaceAddress and of regSocketAddress: socket_addr
socket_addr(select) ==
    CASE select = "GatewayIP" -> gateway_ip
      [] select = "SubnetMask" -> subnet_mask
      [] select = "SourceIP" -> source_ip
      [] select = "SourceMAC" -> source_mac
      [] select = "DestinationIP" -> destination_ip
      [] select = "DestinationMAC" -> destination_mac

\* the switch: max_len
field_size(select) ==
    IF select \in {"SourceMAC", "DestinationMAC"} THEN SizeofMAC ELSE SizeofIP

\* max_len -= offset
max_len_OffsetIgnored(select, offset) == field_size(select)

max_len(select, offset) == field_size(select) - offset

\* commonReg / socketReg: one transfer of len bytes
Xfer(b, n, a, write, len) ==
    [k |-> "xfer", b |-> b, n |-> n, a |-> a,
     rw |-> IF write THEN Write ELSE Read, len |-> len]

\* if (max_len <= 0) return; len = std::min(len, (uint8_t)max_len); the
\* transfer at socket_addr + offset
AddressAccess(b, n, select, write, len, offset) ==
    IF max_len(select, offset) <= 0
    THEN <<>>
    ELSE <<Xfer(b, n, (socket_addr(select) + offset) % Word16, write,
                Min(len, max_len(select, offset) % 256))>>

addrOther == <<devVars, prev, st, cret, wfor, want, elapsed, extVars>>

regInterfaceAddress ==
    /\ pc = "idle"
    /\ \E select \in InterfaceAddress, write \in BOOLEAN,
          len \in AddrLens, offset \in AddrOffsets :
         /\ call' = [op |-> "regInterfaceAddress", n |-> 0, mode |-> NoMode,
                     select |-> select, len |-> len, offset |-> offset]
         /\ log' = AddressAccess(CommonReg, 0, select, write, len, offset)
    /\ pc' = "returned"
    /\ result' = "none"
    /\ UNCHANGED addrOther

regSocketAddress ==
    /\ pc = "idle"
    /\ \E n \in Sockets, select \in SocketAddress, write \in BOOLEAN,
          len \in AddrLens, offset \in AddrOffsets :
         /\ call' = [op |-> "regSocketAddress", n |-> n, mode |-> NoMode,
                     select |-> select, len |-> len, offset |-> offset]
         /\ log' = AddressAccess(SocketReg, n, select, write, len, offset)
    /\ pc' = "returned"
    /\ result' = "none"
    /\ UNCHANGED addrOther

AddrResume ==
    /\ pc = "returned"
    /\ call.op \in {"regInterfaceAddress", "regSocketAddress"}
    /\ pc' = "idle"
    /\ UNCHANGED <<call, result, log, addrOther>>

NextAddr ==
    \/ regInterfaceAddress
    \/ regSocketAddress
    \/ AddrResume

SpecAddr == Init /\ [][NextAddr]_allVars

\* natural size of the field: 4 for an IP, mask or gateway field, 6 for a
\* hardware-address field
NaturalSize(select) ==
    IF select \in {"GatewayIP", "SubnetMask", "SourceIP", "DestinationIP"} THEN 4 ELSE 6

\* C20: regInterfaceAddress and regSocketAddress with offset o and length l
\* on a field of natural size S make no transfer when o >= S, and else one
\* transfer of exactly min(l, S - o) bytes at the field's address + o, so
\* that the bytes touched lie inside the field.
C20_AddressAccessClamped ==
    (Returned /\ call.op \in {"regInterfaceAddress", "regSocketAddress"}) =>
        LET S == NaturalSize(call.select)
            o == call.offset
            l == call.len
        IN  IF o >= S
            THEN log = <<>>
            ELSE /\ Len(log) = 1
                 /\ log[1].len = (IF l < S - o THEN l ELSE S - o)
                 /\ log[1].a = socket_addr(call.select) + o
                 /\ o + log[1].len <= S
                 /\ \A a \in log[1].a .. (log[1].a + log[1].len - 1) :
                        /\ a >= socket_addr(call.select)
                        /\ a < socket_addr(call.select) + S

\* a request that reaches over the end of the field, truncated
C20_Witness ==
    /\ Returned
    /\ call.op = "regSocketAddress"
    /\ call.select = "DestinationMAC"
    /\ call.offset = 3
    /\ call.len = 6
    /\ Len(log) = 1
    /\ log[1].len = 3
    /\ log[1].a = 9


\* =========================================================================
\* Order of the transfers within a call.
\* =========================================================================
Command(n, c) == Wr(SocketReg, n, command_register, c)
StatusReadOf(n, v) == Rd(SocketReg, n, status_register, v)

\* C21: socketClose issues commands by the raw status it reads on entry:
\* Closed gives no command and no poll; Established or CloseWait gives
\* DISCONNECT and a poll for Closed, and a CLOSE only if that poll timed out;
\* every other status gives exactly one CLOSE and no poll.
C21_CloseByRawStatus ==
    (Returned /\ call.op = "socketClose") =>
        /\ Len(log) >= 1
        /\ log[1].k = "rd"
        /\ log[1] = StatusReadOf(call.n, log[1].v)
        /\ LET raw == log[1].v
               rest == Tail(log)
           IN  CASE raw = SOCK_CLOSED -> rest = <<>>
                 [] raw \in {SOCK_ESTABLISHED, SOCK_CLOSE_WAIT} ->
                       /\ Len(rest) \in {2, 3}
                       /\ rest[1] = Command(call.n, DISCONNECT)
                       /\ rest[2].k = "poll"
                       /\ rest[2].n = call.n
                       /\ rest[2].v = SOCK_CLOSED
                       /\ (Len(rest) = 3) <=> ~rest[2].ok
                       /\ ~rest[2].ok => rest[2].late
                       /\ Len(rest) = 3 => rest[3] = Command(call.n, CLOSE)
                 [] OTHER -> rest = <<Command(call.n, CLOSE)>>

\* a DISCONNECT that timed out, followed by the CLOSE
C21_Witness ==
    /\ Returned
    /\ call.op = "socketClose"
    /\ Len(log) = 4
    /\ log[1].v = SOCK_CLOSE_WAIT
    /\ log[4] = Command(call.n, CLOSE)


\* C22: a send with clamped length n > 0 does, in this order: the read of the
\* TX write pointer p, the write of n bytes to the TX buffer of the socket at
\* p, the write of (p + n) mod 2^16 to the TX write pointer, and one SEND
\* command; SEND never precedes the pointer write; p = 0xFFF8 and n = 16 give
\* the pointer 0x0008.
C22_SendOrder ==
    /\ (call.op = "send" /\ CommandsWritten(SEND) # <<>>) =>
           WritesTo(SocketReg, tx_write_pointer) # <<>>
    /\ (Returned /\ call.op = "send" /\ result > 0) =>
           LET k == Len(log)
               n == result
           IN  /\ k >= 4
               /\ LET p == log[k - 3].v IN
                    /\ log[k - 3] = Rd(SocketReg, call.n, tx_write_pointer, p)
                    /\ log[k - 2] = Wr(TxBuffer, call.n, p, n)
                    /\ log[k - 1] = Wr(SocketReg, call.n, tx_write_pointer,
                                       (p + n) % 65536)
                    /\ log[k] = Command(call.n, SEND)
                    /\ (p = 65528 /\ n = 16) => log[k - 1].v = 8
               /\ Len(ValuesRead(tx_write_pointer)) = 1
               /\ Len(BufferWrites(TxBuffer)) = 1
               /\ Len(WritesTo(SocketReg, tx_write_pointer)) = 1
               /\ Len(CommandsWritten(SEND)) = 1

\* the pointer wraps: 0xFFF8 + 16 = 0x0008
C22_Witness ==
    /\ Returned
    /\ call.op = "send"
    /\ result = 16
    /\ ValuesRead(tx_write_pointer) = <<65528>>
    /\ WritesTo(SocketReg, tx_write_pointer)[1].v = 8


\* the length of the receive after the clamping to the availability
ClampedReceive == Smaller(call.len, Availability(rx_received_size))

\* the receive got past its early returns
PastEarlyReturns ==
    /\ ClampedReceive > 0
    /\ call.strip => ClampedReceive >= 8

\* C23: a receive that gets past its early returns writes the RX read pointer
\* exactly once, with (p + consumed) mod 2^16 for the pointer p read at the
\* start and consumed the returned length, plus 8 when the header is stripped,
\* and issues exactly one RECV after that write; a sum past 0xFFFF wraps.
C23_ReceivePointerAdvance ==
    (Returned /\ call.op = "receive" /\ PastEarlyReturns) =>
        LET k == Len(log)
            p == ValuesRead(rx_read_pointer)[1]
            consumed == result + (IF call.strip THEN 8 ELSE 0)
        IN  /\ Len(ValuesRead(rx_read_pointer)) = 1
            /\ WritesTo(SocketReg, rx_read_pointer)
                   = <<Wr(SocketReg, call.n, rx_read_pointer, (p + consumed) % 65536)>>
            /\ log[k - 1] = WritesTo(SocketReg, rx_read_pointer)[1]
            /\ log[k] = Command(call.n, RECV)
            /\ Len(CommandsWritten(RECV)) = 1

\* header and payload consumed across the wrap of the pointer
C23_Witness ==
    /\ Returned
    /\ call.op = "receive"
    /\ call.strip
    /\ PastEarlyReturns
    /\ result > 0
    /\ ValuesRead(rx_read_pointer) = <<65528>>
    /\ WritesTo(SocketReg, rx_read_pointer)[1].v = result


\* C24: after a header-stripping receive with a requested length of at least
\* 8 that consumed data, the ring holding a whole datagram of L payload bytes
\* at the read pointer, the RX read pointer written stands at the boundary
\* behind that datagram: the first byte of the next header, or the end of the
\* queued data.
C24_PointerAtDatagramBoundary ==
    \A L \in 0 .. MaxPayload :
        (/\ Returned
         /\ call.op = "receive"
         /\ call.strip
         /\ call.len >= 8
         /\ DatagramAt(call.n, ReadPointer, L)
         /\ WritesTo(SocketReg, rx_read_pointer) # <<>>)
        => WritesTo(SocketReg, rx_read_pointer)[1].v = (ReadPointer + 8 + L) % 65536


\* positions in the log l of the entries that are ...
ModeWritesIn(l) ==
    {i \in 1 .. Len(l) : l[i].k = "wr" /\ l[i].b = SocketReg /\ l[i].a = mode_register}
CommandsIn(l, cs_) ==
    {i \in 1 .. Len(l) :
        l[i].k = "wr" /\ l[i].b = SocketReg /\ l[i].a = command_register /\ l[i].v \in cs_}
OpenPollsIn(l) == {i \in 1 .. Len(l) : l[i].k = "poll" /\ l[i].v # SOCK_CLOSED}
\* an entry of a socketClose: the status read, DISCONNECT, the poll for Closed, CLOSE
IsCloseEntry(e) ==
    \/ e.k = "rd" /\ e.b = SocketReg /\ e.a = status_register
    \/ e.k = "wr" /\ e.b = SocketReg /\ e.a = command_register /\ e.v \in {DISCONNECT, CLOSE}
    \/ e.k = "poll" /\ e.v = SOCK_CLOSED

\* C25: in a socketOpen with the link up the device is written in the order
\* close sequence, mode register (0x41 in the TCP modes, 0x42 for UDP), OPEN,
\* and polls come only after that; LISTEN (server) or CONNECT (client) is
\* issued at most once and only right after a poll that observed Init; UDP
\* issues neither.
C25_OpenOrder ==
    (OpenStarted /\ OpenLog[1].v % 2 = 1) =>
        LET l == OpenLog
            M == ModeWritesIn(l)
            O == CommandsIn(l, {OPEN})
            S == CommandsIn(l, {LISTEN, CONNECT})
        IN  /\ Cardinality(M) <= 1
            /\ Cardinality(O) <= 1
            /\ Cardinality(S) <= 1
            /\ \A m \in M :
                 /\ m >= 3
                 /\ \A i \in 2 .. (m - 1) : IsCloseEntry(l[i])
                 /\ l[m].v = (IF call.mode = "UDP" THEN 66 ELSE 65)
            /\ \A o \in O : (o - 1) \in M
            /\ \A i \in OpenPollsIn(l) : \E o \in O : o < i
            /\ \A i \in S :
                 /\ call.mode # "UDP"
                 /\ l[i].v = (IF call.mode = "TCP_Server" THEN LISTEN ELSE CONNECT)
                 /\ Observed(l[i - 1], SOCK_INIT)
                 /\ \E o \in O : o < i
            /\ Returned => (M # {} /\ O # {})

\* a server socket opened: DISCONNECT and its poll, mode, OPEN, poll, LISTEN, poll
C25_Witness ==
    /\ Returned
    /\ call.op = "socketOpen"
    /\ call.mode = "TCP_Server"
    /\ result = "true"
    /\ CommandsIn(log, {DISCONNECT}) # {}
    /\ CommandsIn(log, {LISTEN}) # {}


\* =========================================================================
\* The socket lifecycle and the data layer together: calls of all the public
\* socket functions, on any socket, against the device with its data
\* registers.
\* =========================================================================
LifecycleOps == {"socketOpen", "socketClose", "socketKeepOpen", "socketStatus"}
InLifecycle == call.op \in LifecycleOps /\ pc \notin {"idle", "returned"}
NoDataCommand == \A n \in Sockets : cr[n] \notin {SEND, RECV}

\* a call of a lifecycle function, counted like the calls of the data layer
CallLifecycle(op, n, m, entry) ==
    /\ pc = "idle"
    /\ loc.calls < MaxCalls
    /\ call' = [op |-> op, n |-> n, mode |-> m]
    /\ loc' = IdleLocals(loc.calls + 1)
    /\ result' = "pending"
    /\ pc' = entry
    /\ prev' = IF op = "socketStatus" /\ prev.n = n THEN prev ELSE NoCall
    /\ UNCHANGED <<log, st, cret, wfor, want, elapsed, devVars,
                   cs, wire, ctx, reg16, rxbuf>>

DriverCallOpen ==
    \E n \in Sockets, m \in SocketMode : CallLifecycle("socketOpen", n, m, "o_phy")
DriverCallClose == \E n \in Sockets : CallLifecycle("socketClose", n, NoMode, "c_read")
DriverCallKeepOpen ==
    \E n \in Sockets, m \in SocketMode : CallLifecycle("socketKeepOpen", n, m, "k_read")
DriverCallStatus == \E n \in Sockets : CallLifecycle("socketStatus", n, NoMode, "s_read")

\* The device acts at any time during a lifecycle call (its polls wait for
\* it), and as in the data layer otherwise; a SEND or RECV is executed with its
\* effect on the data registers, between calls.
NextDriver ==
    \/ DriverCallOpen
    \/ DriverCallClose
    \/ DriverCallKeepOpen
    \/ DriverCallStatus
    \/ CallSocketConnected
    \/ CallSendAvailable
    \/ CallReceiveAvailable
    \/ CallSend
    \/ CallReceive
    \/ (call.op \in LifecycleOps /\ Resume)
    \/ (call.op \notin LifecycleOps /\ DataResume)
    \/ OpenPhy
    \/ OpenMode
    \/ OpenCommand
    \/ OpenSecond
    \/ CloseRead
    \/ CloseDisconnect
    \/ CloseCommand
    \/ WaitRead
    \/ Delay
    \/ KeepOpenRead
    \/ KeepOpenDisconnect
    \/ StatusRead
    \/ StatusCommand
    \/ DataStatusRead
    \/ DataStatusCommand
    \/ AtomicRead
    \/ SendPointer
    \/ SendBuffer
    \/ SendPointerWrite
    \/ SendCommand
    \/ ReceivePointer
    \/ ReceiveHeader
    \/ ReceiveBuffer
    \/ ReceivePointerWrite
    \/ ReceiveCommand
    \/ (InLifecycle /\ NoDataCommand /\ DevExec)
    \/ (InLifecycle /\ DevNet)
    \/ DevArrive
    \/ DevTransmit
    \/ DevExecData
    \/ DevNetData

SpecDriver == InitData /\ [][NextDriver]_allVars


\* the frame addresses a block of the socket of the call
FrameOfSocket(e) == e.b \in {SocketReg, TxBuffer, RxBuffer} /\ e.n = call.n
\* the PHY status read in the common block
PhyRead(e) == e.k = "rd" /\ e.b = CommonReg /\ e.n = 0 /\ e.a = phy_config

FramesOfCall ==
    \A i \in 1 .. Len(log) :
        \/ FrameOfSocket(log[i])
        \/ /\ PhyRead(log[i])
           /\ OpenStarted
           /\ i = (IF call.op = "socketKeepOpen" THEN 2 ELSE 1)

\* a step of the host with a transfer leaves the registers and buffers of the
\* other sockets and the common registers as they are
OthersUnchanged ==
    (log' # log /\ log' # <<>>) =>
        /\ phycfgr' = phycfgr
        /\ \A j \in Sockets \ {call'.n} :
             /\ sr'[j] = sr[j]
             /\ cr'[j] = cr[j]
             /\ mr'[j] = mr[j]
             /\ reg16'[j] = reg16[j]
             /\ rxbuf'[j] = rxbuf[j]

\* C26: every frame of socketOpen, socketClose, socketKeepOpen, socketStatus,
\* socketConnected, sendAvailable, receiveAvailable, send and receive for
\* socket i addresses the register, TX buffer or RX buffer block of socket i,
\* except the PHY status read of socketOpen in the common block; and these
\* operations leave the registers and buffers of every other socket and the
\* common registers unchanged.
C26_FramesOfOwnSocket == []FramesOfCall /\ [][OthersUnchanged]_allVars

\* socket 1 opened while socket 0 holds a connection with data queued
C26_Witness ==
    /\ Returned
    /\ call.op = "socketOpen"
    /\ call.n = 1
    /\ result = "true"
    /\ sr[0] = SOCK_ESTABLISHED
    /\ rxbuf[0] # <<>>
    /\ Len(log) >= 5


\* the transfers of the call before its first read of a buffer pointer: the
\* whole call of a query, the clamping step of send and receive
BeforePointerRead ==
    LET P == {i \in 1 .. Len(log) :
                 log[i].k = "rd" /\ log[i].b = SocketReg
                                 /\ log[i].a \in {tx_write_pointer, rx_read_pointer}}
    IN  IF P = {} THEN log
        ELSE SubSeq(log, 1, (CHOOSE i \in P : \A j \in P : i <= j) - 1)

\* not connected, availability 0, or 0 bytes transferred
ReportsNothing ==
    IF call.op = "socketConnected" THEN result = FALSE ELSE result = 0

\* C27: socketConnected, sendAvailable, receiveAvailable and the clamping step
\* of send and receive write to the device only through the status
\* maintenance: one CLOSE when the raw status is Init, one DISCONNECT when it
\* is CloseWait, no write in any other status; with Init and CloseWait the
\* call reports not connected, availability 0 or 0 bytes transferred.
C27_QueriesWriteOnlyMaintenance ==
    (Returned /\ call.op \in {"socketConnected", "sendAvailable",
                              "receiveAvailable", "send", "receive"}) =>
        LET raw == log[1].v IN
        /\ log[1] = StatusReadOf(call.n, raw)
        /\ CASE raw = SOCK_INIT ->
                   /\ Writes(log) = <<Command(call.n, CLOSE)>>
                   /\ ReportsNothing
             [] raw = SOCK_CLOSE_WAIT ->
                   /\ Writes(log) = <<Command(call.n, DISCONNECT)>>
                   /\ ReportsNothing
             [] OTHER -> Writes(BeforePointerRead) = <<>>
        /\ call.op \in {"socketConnected", "sendAvailable", "receiveAvailable"}
               => BeforePointerRead = log

\* a query of the availability that found CloseWait and issued DISCONNECT
C27_Witness ==
    /\ Returned
    /\ call.op = "receiveAvailable"
    /\ log[1].v = SOCK_CLOSE_WAIT
    /\ Writes(log) = <<Command(call.n, DISCONNECT)>>
    /\ result = 0

====
